---- MODULE Spec2Model ----
(***************************************************************************)
(* Medication-adherence backend: the daily reward claim of the rewards     *)
(* routes and the Google Calendar sync engine of the calendar routes.      *)
(*                                                                         *)
(* Every await of a handler is a point where other handlers may run, so a  *)
(* handler is modelled as one action per synchronous segment: the code     *)
(* between two awaits, with the store or provider call the segment ends    *)
(* in taking effect at the start of the next segment.                      *)
(***************************************************************************)
EXTENDS Integers, Sequences, FiniteSets, TLC

(***************************************************************************)
(* Bounds of the model.                                                    *)
(***************************************************************************)
\* clock ticks per server-local calendar day
DayLen == 2
\* calendar days the clock runs through
MaxDays == 3
\* POST /rewards/claim-daily requests issued in one behaviour
MaxRequests == 4

\* regimens of the user
MaxRegimens == 2
\* events generateCalendarEvents yields for one regimen
MaxEvents == 2
\* the things that go wrong in a sync of a list longer than the cut
MaxFaults == 1
\* items of a list given to processInBatches
MaxItems == 5
\* the batch sizes processInBatches is called with
MaxBatchSize == 3
\* minutes the page of the calendar settings is followed
MaxClock == 3
\* calls of fetchUserRewards waiting for their answer
MaxFetches == 2

\* the instants of the clock: Date values are ticks since day 0, 00:00
MaxTime == MaxDays * DayLen - 1
Times == 0..MaxTime
Days == 0..(MaxDays - 1)

\* a Date field that was never set (undefined in the document)
NoDate == -1

\* the concurrent request slots of the claim-daily handler
Requests == {1, 2}

\* the user's regimens, in the order Regimen.find returns them
Regimens == 1..MaxRegimens

VARIABLES
    now,                  \* the server clock: what new Date() returns
    totalRewardPoints,    \* User.totalRewardPoints
    lastDailyRewardClaim, \* User.lastDailyRewardClaim
    claimPc,              \* per request: "idle", "find" (awaiting User.findById),
                          \*   "update" (awaiting User.findByIdAndUpdate)
    claimToday,           \* per request: the local `today` (midnight of the request's instant)
    claimStamp,           \* per request: the new Date() put in the update document
    claimStarted,         \* number of claim-daily requests issued so far
    claimLog,             \* per day of the request's instant: awards, 400s, points gained
    claimResponse,        \* per request: the status of its response, 0 while it runs
    claimSpanned          \* some awarded request spanned midnight (it has no single day)

claimVars == <<now, totalRewardPoints, lastDailyRewardClaim, claimPc, claimToday,
               claimStamp, claimStarted, claimLog, claimResponse, claimSpanned>>

VARIABLES
    impl,          \* the calendar router deployed: "calendar" (routes/calendar.js)
                   \*   or "optimized" (the memory-optimized router)
    isConnected,   \* user.googleCalendar is set, isConnected and holds an accessToken
    isActive,      \* per regimen: Regimen.isActive
    nEvents,       \* per regimen: length of the list generateCalendarEvents returns
    calendarSync,  \* per regimen: Regimen.calendarSync
    remote,        \* the event ids that exist at the calendar provider
    run,           \* per regimen: the syncSingleRegimen call in progress
    runLog,        \* per regimen: what that call did at the provider, and its outcome
    sa,            \* the POST /calendar/sync-all handler in progress
    saLog,         \* what the sync-all request did so far
    saResponse,    \* the last response of POST /calendar/sync-all
    rm,            \* the DELETE /calendar/regimen/:regimenId handler in progress
    rmLog,         \* what the remove request did at the provider
    rmResponse,    \* the last response of DELETE /calendar/regimen/:regimenId
    dcLog,         \* the last DELETE /calendar/disconnect: its response, its provider calls
    calStarted     \* a calendar request was issued: each behaviour follows one request

calVars == <<impl, isConnected, isActive, nEvents, calendarSync, remote,
             run, runLog, sa, saLog, saResponse, rm, rmLog, rmResponse, dcLog,
             calStarted>>

VARIABLES
    genRegimen,    \* the regimen document passed to generateCalendarEvents
    genDays,       \* its `days` argument
    genResult      \* per call: the instant of the call and the list it returned

genVars == <<genRegimen, genDays, genResult>>

VARIABLES
    doseLogs,      \* the DoseLog collection of the user: entries of each kind
    summary,       \* the response of GET /consolidated, if one was sent
    summaryLog     \* history: the store queries that failed during that request

sumVars == <<doseLogs, summary, summaryLog>>

VARIABLES
    store,         \* the state of useRewardsStore: userRewards and its flags
    storePc        \* where claimDailyReward of the store stands

storeVars == <<store, storePc>>

VARIABLES
    reported,      \* the ids calculateAchievementsFast returned in its earlier calls
    lastReport     \* the ids its latest call returned

achVars == <<reported, lastReport>>

VARIABLES
    sr,            \* the POST /calendar/sync-regimen/:regimenId handler in progress
    srLog,         \* what that request did at the provider
    srResponse     \* the response of POST /calendar/sync-regimen/:regimenId

srVars == <<sr, srLog, srResponse>>

VARIABLES
    pb,            \* the call of memoryManager.processInBatches in progress
    pbLog          \* what that call did

pbVars == <<pb, pbLog>>

VARIABLES
    statusCache,   \* calendarService: calendarStatusCache
    cacheOutdated, \* the call that made the cached status untrue, "" if none
    gs,            \* the call of getConnectionStatus in flight
    ch,            \* the call of handleCallback or disconnect in flight
    csLog,         \* the last return of getConnectionStatus
    clock          \* Date.now() of the page, in minutes

cacheVars == <<statusCache, cacheOutdated, gs, ch, csLog, clock>>

VARIABLES
    generatedAt,   \* useRewardsStore: userRewards.generatedAt
    fetching,      \* the RewardService.getUserRewards requests in flight
    fetchLog       \* the last call of fetchUserRewards

fetchVars == <<generatedAt, fetching, fetchLog>>

VARIABLES
    pointsNow,     \* the totalPoints of the last rewards response
    pointsBefore   \* the totalPoints of the response before it

pointVars == <<pointsNow, pointsBefore>>

\* the state of the operations that have specifications of their own
otherVars == <<srVars, pbVars, cacheVars, fetchVars, pointVars>>

\* the state of the operations that are followed on their own
fnVars == <<genVars, sumVars, storeVars, achVars, otherVars>>

vars == <<claimVars, calVars, fnVars>>

(***************************************************************************)
(* Dates.                                                                  *)
(***************************************************************************)
\* the calendar day an instant falls on
DayOf(t) == t \div DayLen

\* today.setHours(0, 0, 0, 0): midnight of the day of t
StartOfDay(t) == t - (t % DayLen)

(***************************************************************************)
(* POST /api/rewards/claim-daily                                           *)
(***************************************************************************)
dailyRewardPoints == 10

\* a plausible slip: the day boundary compared strictly
AlreadyClaimedStrict(lastDailyClaim, today) ==
    lastDailyClaim # NoDate /\ lastDailyClaim > today

\* if (lastDailyClaim && lastDailyClaim >= today)
AlreadyClaimed(lastDailyClaim, today) ==
    lastDailyClaim # NoDate /\ lastDailyClaim >= today

\* memoryManager.checkMemoryAndGC(): the MemoryManager class of this repository
\* has no method of that name, and the call is then a TypeError that the
\* handler's catch answers with 500; with a memoryManager that has it, it returns
CheckMemoryAndGC == {"returns", "TypeError"}

\* a 400 response counted in the log of day d
Respond(d, field) ==
    claimLog' = [claimLog EXCEPT ![d][field] = @ + 1]

\* const today = new Date(); today.setHours(0,0,0,0); then User.findById is issued
ClaimBegin(r) ==
    /\ claimPc[r] = "idle"
    /\ claimStarted < MaxRequests
    /\ claimStarted' = claimStarted + 1
    /\ claimToday' = [claimToday EXCEPT ![r] = StartOfDay(now)]
    /\ claimPc' = [claimPc EXCEPT ![r] = "find"]
    /\ claimResponse' = [claimResponse EXCEPT ![r] = 0]
    /\ UNCHANGED <<now, totalRewardPoints, lastDailyRewardClaim, claimStamp,
                   claimLog, claimSpanned>>

\* User.findById resolves: the date check, then either the 400 or the update is
\* issued with lastDailyRewardClaim: new Date() evaluated now
ClaimFind(r) ==
    /\ claimPc[r] = "find"
    /\ \E found \in BOOLEAN :
         IF ~found
         THEN \* the query rejects: catch, 500
              /\ claimPc' = [claimPc EXCEPT ![r] = "idle"]
              /\ claimToday' = [claimToday EXCEPT ![r] = 0]
              /\ claimResponse' = [claimResponse EXCEPT ![r] = 500]
              /\ UNCHANGED <<claimStamp, claimLog>>
         ELSE IF AlreadyClaimed(lastDailyRewardClaim, claimToday[r])
         THEN \* 400 'Daily reward already claimed today'
              /\ Respond(DayOf(claimToday[r]), "rejected")
              /\ claimPc' = [claimPc EXCEPT ![r] = "idle"]
              /\ claimToday' = [claimToday EXCEPT ![r] = 0]
              /\ claimResponse' = [claimResponse EXCEPT ![r] = 400]
              /\ UNCHANGED claimStamp
         ELSE /\ claimStamp' = [claimStamp EXCEPT ![r] = now]
              /\ claimPc' = [claimPc EXCEPT ![r] = "update"]
              /\ UNCHANGED <<claimToday, claimLog, claimResponse>>
    /\ UNCHANGED <<now, totalRewardPoints, lastDailyRewardClaim, claimStarted,
                   claimSpanned>>

\* User.findByIdAndUpdate resolves: the stamp is set and the points incremented
\* in one document update, then memoryManager.checkMemoryAndGC() and the 200;
\* or the update rejects, 500
ClaimUpdate(r) ==
    /\ claimPc[r] = "update"
    /\ claimPc' = [claimPc EXCEPT ![r] = "idle"]
    /\ \E updated \in BOOLEAN :
         IF updated
         THEN /\ lastDailyRewardClaim' = claimStamp[r]
              /\ totalRewardPoints' = totalRewardPoints + dailyRewardPoints
              /\ claimLog' = [claimLog EXCEPT
                     ![DayOf(claimToday[r])].ok = @ + 1,
                     ![DayOf(claimToday[r])].gained = @ + dailyRewardPoints]
              /\ claimSpanned' =
                     (claimSpanned \/ DayOf(claimStamp[r]) # DayOf(claimToday[r]))
              /\ \E gc \in CheckMemoryAndGC :
                     claimResponse' = [claimResponse EXCEPT ![r] =
                                          IF gc = "returns" THEN 200 ELSE 500]
         ELSE \* catch, 500
              /\ claimResponse' = [claimResponse EXCEPT ![r] = 500]
              /\ UNCHANGED <<lastDailyRewardClaim, totalRewardPoints, claimLog,
                             claimSpanned>>
    \* the handler's locals end with it
    /\ claimToday' = [claimToday EXCEPT ![r] = 0]
    /\ claimStamp' = [claimStamp EXCEPT ![r] = 0]
    /\ UNCHANGED <<now, claimStarted>>

\* the clock advances
Tick ==
    /\ now < MaxTime
    /\ now' = now + 1

(***************************************************************************)
(* The calendar provider (Google Calendar API).                            *)
(***************************************************************************)
\* the failures events.insert and events.delete reject with: the error's code
\* and whether its message holds 'Rate Limit' or 'invalid_grant'
ProviderErrors ==
    { [code |-> 403, rateLimit |-> TRUE,  invalidGrant |-> FALSE],  \* Rate Limit Exceeded
      [code |-> 429, rateLimit |-> TRUE,  invalidGrant |-> FALSE],  \* Rate Limit Exceeded
      [code |-> 403, rateLimit |-> FALSE, invalidGrant |-> FALSE],  \* Forbidden
      [code |-> 401, rateLimit |-> FALSE, invalidGrant |-> FALSE],  \* Invalid Credentials
      [code |-> 400, rateLimit |-> FALSE, invalidGrant |-> TRUE],   \* invalid_grant
      [code |-> 500, rateLimit |-> FALSE, invalidGrant |-> FALSE] } \* Backend Error

\* the answer of one provider call
NoError == [code |-> 200, rateLimit |-> FALSE, invalidGrant |-> FALSE]
Outcomes == {NoError} \cup ProviderErrors

\* the provider rejected the credential: code 401, or 'invalid_grant' in the message
CredentialRejected(error) == error.code = 401 \/ error.invalidGrant

\* error.code === 403 && error.message.includes('Rate Limit')
IsRateLimit(error) == error.code = 403 /\ error.rateLimit

\* a plausible slip: only the message is looked at, a bare 401 is retried
IsAuthExpiredByMessage(error) == error.invalidGrant

\* error.code === 401 || error.message.includes('invalid_grant')
IsAuthExpired(error) == error.code = 401 \/ error.invalidGrant

(***************************************************************************)
(* syncSingleRegimen(regimen, userId)                                      *)
(***************************************************************************)
maxRetries == 3

\* a plausible slip: the bound of the retry loop off by one
RetryAllowedOffByOne(retryCount) == retryCount <= maxRetries

\* while (retryCount < maxRetries && !success)
RetryAllowed(retryCount) == retryCount < maxRetries

\* events.slice(0, 30)
maxEventsPerRegimen == 30
\* memoryManager.processInBatches(events, 3, ...)
eventBatchSize == 3
\* memoryManager.processInBatches(regimens, 3, ...)
regimenBatchSize == 3

Min(a, b) == IF a <= b THEN a ELSE b

\* error.message of what syncSingleRegimen throws
AuthExpiredMessage == "Calendar authentication expired. Please reconnect."
NotConnectedMessage == "Calendar not connected or invalid credentials"
StoreErrorMessage == "store error"
TimeoutMessage == "Regimen sync timeout"

\* no call in progress
NoRun ==
    [pc |-> "idle", i |-> 0, retryCount |-> 0, createdEvents |-> <<>>,
     stamp |-> NoDate, pending |-> {}, batchResults |-> <<>>, awaited |-> FALSE]

\* the record of a call that has not touched the provider
NoRunLog ==
    [attempts |-> <<>>, ids |-> <<>>, calls |-> 0, authAt |-> 0,
     outcome |-> "none", error |-> "", startedAt |-> NoDate, eventsCreated |-> 0,
     eventIds |-> <<>>, lastSyncAt |-> NoDate]

\* syncSingleRegimen is called: it runs up to its first await, User.findById
StartedRun == [NoRun EXCEPT !.pc = "user", !.awaited = TRUE]

\* a plausible slip: the list is not cut, every generated event is sent
EventsToCreateUncut(r) == nEvents[r]

\* the number of events the call will try to create
\* calendar: events.slice(0, 30) of the list; optimized: the whole list
EventsToCreate(r) ==
    IF impl = "calendar" THEN Min(nEvents[r], maxEventsPerRegimen) ELSE nEvents[r]

\* a plausible slip: the results of the batch pushed as they are, nulls included
ValidIdsUnfiltered(batchResults, from, to) == [k \in 1..(to - from + 1) |-> batchResults[from + k - 1]]

\* the ids of a batch that are not null, in the order of the batch
RECURSIVE ValidIds(_, _, _)
ValidIds(batchResults, from, to) ==
    IF from > to THEN <<>>
    ELSE (IF batchResults[from] # 0 THEN <<batchResults[from]>> ELSE <<>>)
             \o ValidIds(batchResults, from + 1, to)

\* the events of the batch that starts at event `from`
BatchOf(from, n, size) == from..Min(from + size - 1, n)

\* a plausible slip: the loop over the events stops one event short
NextEventOffByOne(r, i, createdEvents) ==
    IF i + 1 < EventsToCreate(r)
    THEN [run[r] EXCEPT !.pc = "insert", !.i = i + 1, !.retryCount = 0,
                        !.createdEvents = createdEvents]
    ELSE [run[r] EXCEPT !.pc = "persist", !.i = 0, !.retryCount = 0,
                        !.createdEvents = createdEvents, !.stamp = now]

\* the segment that follows the creation loop of event i, in routes/calendar.js: the
\* next event's events.insert is issued, or Regimen.findByIdAndUpdate with
\* 'calendarSync.lastSyncAt': new Date()
NextEvent(r, i, createdEvents) ==
    IF i < EventsToCreate(r)
    THEN [run[r] EXCEPT !.pc = "insert", !.i = i + 1, !.retryCount = 0,
                        !.createdEvents = createdEvents]
    ELSE [run[r] EXCEPT !.pc = "persist", !.i = 0, !.retryCount = 0,
                        !.createdEvents = createdEvents, !.stamp = now]

\* the same for the optimized router: the next batch of processInBatches is
\* issued (all its events.insert calls at once), or the update
NextBatch(r, from, createdEvents) ==
    IF from <= EventsToCreate(r)
    THEN [run[r] EXCEPT !.pc = "batch", !.i = from, !.createdEvents = createdEvents,
             !.pending = BatchOf(from, EventsToCreate(r), eventBatchSize),
             !.batchResults =
                 [k \in BatchOf(from, EventsToCreate(r), eventBatchSize) |-> 0]]
    ELSE [run[r] EXCEPT !.pc = "persist", !.i = 0, !.createdEvents = createdEvents,
             !.pending = {}, !.batchResults = <<>>, !.stamp = now]

(***************************************************************************)
(* POST /api/calendar/sync-all                                             *)
(***************************************************************************)
\* the active regimens, in the order of the list
RECURSIVE ActiveFrom(_)
ActiveFrom(r) ==
    IF r > MaxRegimens THEN <<>>
    ELSE (IF isActive[r] THEN <<r>> ELSE <<>>) \o ActiveFrom(r + 1)

\* Regimen.find({ user, isActive: true })
ActiveRegimens == ActiveFrom(1)

NoSyncAll ==
    [pc |-> "idle", regimens |-> <<>>, idx |-> 0, results |-> <<>>,
     totalEvents |-> 0, waiting |-> {}, batchResults |-> <<>>]

NoSyncAllLog == [attempted |-> {}, calls |-> [r \in Regimens |-> 0], authAt |-> 0,
                 timedOut |-> {}]

\* a field the response does not carry
Absent == -1

NoResponse ==
    [status |-> 0, totalEvents |-> Absent, successCount |-> Absent,
     failureCount |-> Absent, results |-> <<>>]

ErrorResponse(status) == [NoResponse EXCEPT !.status = status]

\* the errors a store query (User.findById, Regimen.find) rejects with: whether
\* the message holds 'invalid_grant' or 'timeout' (mongoose: 'buffering timed out')
StoreErrors ==
    { [invalidGrant |-> FALSE, timeout |-> TRUE],
      [invalidGrant |-> FALSE, timeout |-> FALSE] }

\* the outer catch of sync-all: routes/calendar.js answers 401 with
\* reconnectRequired for 'invalid_grant', 408 for 'timeout', else 500; the
\* optimized router answers 500
SyncAllCatch(error) ==
    IF impl # "calendar" THEN ErrorResponse(500)
    ELSE IF error.invalidGrant THEN ErrorResponse(401)
    ELSE IF error.timeout THEN ErrorResponse(408)
    ELSE ErrorResponse(500)

\* results.filter(r => r.success).length
CountSuccess(results) ==
    Cardinality({k \in 1..Len(results) : results[k].success})

\* results.filter(r => !r.success).length
CountFailure(results) ==
    Cardinality({k \in 1..Len(results) : ~results[k].success})

\* res.json({ message, totalEvents, successCount, failureCount, results }); the
\* optimized router answers { message, totalEvents, results }
SyncAllResponse(results, totalEvents) ==
    IF impl = "calendar"
    THEN [status |-> 200, totalEvents |-> totalEvents,
          successCount |-> CountSuccess(results),
          failureCount |-> CountFailure(results), results |-> results]
    ELSE [status |-> 200, totalEvents |-> totalEvents, successCount |-> Absent,
          failureCount |-> Absent, results |-> results]

\* the results entry of a regimen whose call returned
SuccessEntry(r, eventsCreated) ==
    [regimenId |-> r, eventsCreated |-> eventsCreated, success |-> TRUE, error |-> ""]

\* the results entry of a regimen whose call threw or timed out
FailureEntry(r, message) ==
    [regimenId |-> r, eventsCreated |-> 0, success |-> FALSE, error |-> message]

\* the entries of a batch of regimens, in the order of the batch
RECURSIVE BatchEntries(_, _, _)
BatchEntries(batchResults, regimens, k) ==
    IF k > Len(regimens) THEN <<>>
    ELSE (IF regimens[k] \in DOMAIN batchResults
          THEN <<batchResults[regimens[k]]>> ELSE <<>>)
             \o BatchEntries(batchResults, regimens, k + 1)

\* a plausible slip: a failed regimen ends the loop, the summary is sent at once
RecordSeqStoppingAtFailure(entry) ==
    LET results == Append(sa.results, entry)
        totalEvents == sa.totalEvents + entry.eventsCreated
    IN  IF sa.idx < Len(sa.regimens) /\ entry.success
        THEN /\ sa' = [sa EXCEPT !.pc = "delay", !.results = results,
                                 !.totalEvents = totalEvents]
             /\ UNCHANGED saResponse
        ELSE /\ sa' = NoSyncAll
             /\ saResponse' = SyncAllResponse(results, totalEvents)

\* routes/calendar.js: the entry is pushed and totalEvents added to; then the
\* timer before the next regimen is set, or, after the last one, the response sent
RecordSeq(entry) ==
    LET results == Append(sa.results, entry)
        totalEvents == sa.totalEvents + entry.eventsCreated
    IN  IF sa.idx < Len(sa.regimens)
        THEN /\ sa' = [sa EXCEPT !.pc = "delay", !.results = results,
                                 !.totalEvents = totalEvents]
             /\ UNCHANGED saResponse
        ELSE /\ sa' = NoSyncAll
             /\ saResponse' = SyncAllResponse(results, totalEvents)

\* the calls of syncSingleRegimen a batch of regimens starts
StartRuns(run2, batch) ==
    [x \in Regimens |-> IF x \in batch THEN StartedRun ELSE run2[x]]

StartRunLogs(log2, batch) ==
    [x \in Regimens |->
        IF x \in batch
        THEN [NoRunLog EXCEPT !.outcome = "running", !.startedAt = now,
                              !.attempts = [k \in 1..EventsToCreate(x) |-> 0],
                              !.ids = [k \in 1..EventsToCreate(x) |-> 0]]
        ELSE log2[x]]

\* the regimens of the batch of the list that starts at position `from`
RegimenBatch(regimens, from) ==
    {regimens[k] : k \in BatchOf(from, Len(regimens), regimenBatchSize)}

\* optimized router: the entry of one regimen of the batch is there; when it is
\* the last of the batch, Promise.all resolves, the entries are pushed and
\* processInBatches goes on to the next batch or returns, and the response is sent
RecordBatch(r, entry, run2, log2, salog2) ==
    LET batchResults == sa.batchResults @@ (r :> entry)
        waiting == sa.waiting \ {r}
        totalEvents == sa.totalEvents + entry.eventsCreated
        results == sa.results \o BatchEntries(batchResults, sa.regimens, 1)
        from == sa.idx + regimenBatchSize
    IN  IF waiting # {}
        THEN /\ sa' = [sa EXCEPT !.waiting = waiting, !.batchResults = batchResults,
                                 !.totalEvents = totalEvents]
             /\ run' = run2
             /\ runLog' = log2
             /\ saLog' = salog2
             /\ UNCHANGED saResponse
        ELSE IF from <= Len(sa.regimens)
        THEN /\ sa' = [sa EXCEPT !.idx = from, !.results = results,
                                 !.totalEvents = totalEvents,
                                 !.waiting = RegimenBatch(sa.regimens, from),
                                 !.batchResults = <<>>]
             /\ run' = StartRuns(run2, RegimenBatch(sa.regimens, from))
             /\ runLog' = StartRunLogs(log2, RegimenBatch(sa.regimens, from))
             /\ saLog' = [salog2 EXCEPT
                            !.attempted = @ \cup RegimenBatch(sa.regimens, from)]
             /\ UNCHANGED saResponse
        ELSE /\ sa' = NoSyncAll
             /\ run' = run2
             /\ runLog' = log2
             /\ saLog' = salog2
             /\ \E gc \in CheckMemoryAndGC :
                    saResponse' = IF gc = "returns"
                                  THEN SyncAllResponse(results, totalEvents)
                                  ELSE ErrorResponse(500)

\* the call for regimen r has returned or thrown: what its caller does with it.
\* A call whose caller stopped waiting (the 15 s timer won the race) ends unseen.
Settled(r, entry, log2, salog2) ==
    LET run2 == [run EXCEPT ![r] = NoRun]
    IN  IF ~run[r].awaited
        THEN /\ run' = run2
             /\ runLog' = log2
             /\ UNCHANGED <<sa, saLog, saResponse>>
        ELSE IF impl = "calendar"
        THEN /\ RecordSeq(entry)
             /\ run' = run2
             /\ runLog' = log2
             /\ saLog' = salog2
        ELSE RecordBatch(r, entry, run2, log2, salog2)

\* the call for regimen r goes on to its next await
Continues(r, next, log2, salog2) ==
    /\ run' = [run EXCEPT ![r] = next]
    /\ runLog' = log2
    /\ saLog' = IF run[r].awaited THEN salog2 ELSE saLog
    /\ UNCHANGED <<sa, saResponse>>

\* the call throws `message`
Throws(r, message, log2, salog2) ==
    Settled(r, FailureEntry(r, message),
            [log2 EXCEPT ![r].outcome = "thrown", ![r].error = message], salog2)

\* the position of regimen r in the list of this sync-all request
PositionOf(r) == CHOOSE k \in 1..Len(sa.regimens) : sa.regimens[k] = r

\* User.findById resolves in syncSingleRegimen: the connection check of
\* routes/calendar.js (the optimized router reads user.googleCalendar.accessToken,
\* a TypeError when googleCalendar is unset), the events generated, and the first
\* events.insert or batch issued
RunUser(r) ==
    /\ run[r].pc = "user"
    /\ \E found \in BOOLEAN :
         IF ~found THEN Throws(r, StoreErrorMessage, runLog, saLog)
         ELSE IF ~isConnected
         THEN Throws(r, IF impl = "calendar" THEN NotConnectedMessage ELSE "TypeError",
                     runLog, saLog)
         ELSE IF impl = "calendar"
         THEN Continues(r, NextEvent(r, 0, <<>>), runLog, saLog)
         ELSE Continues(r, NextBatch(r, 1, <<>>), runLog, saLog)
    /\ UNCHANGED <<now, impl, isConnected, isActive, nEvents, calendarSync, remote,
                   calStarted>>

\* response.data.id: the provider gives every event it creates an id of its own,
\* opaque to the caller; the model names it after the call that created it (the
\* regimen, the event's place in the list, the attempt)
ProviderId(r, i, attempt) == r * 100 + i * 10 + attempt

\* the provider creates the event
Created(id) == remote' = remote \cup {id}

\* routes/calendar.js: calendar.events.insert of event run[r].i resolves or rejects
RunInsert(r) ==
    /\ impl = "calendar"
    /\ run[r].pc = "insert"
    /\ \E outcome \in Outcomes :
         LET i == run[r].i
             retryCount == run[r].retryCount + 1
             calls == runLog[r].calls + 1
             rejected == CredentialRejected(outcome)
             log2 == [runLog EXCEPT ![r].attempts[i] = @ + 1, ![r].calls = calls,
                         ![r].authAt = IF @ = 0 /\ rejected THEN calls ELSE @]
             salog2 == [saLog EXCEPT !.calls[r] = @ + 1,
                         !.authAt = IF @ = 0 /\ rejected THEN PositionOf(r) ELSE @]
             retry == [run[r] EXCEPT !.retryCount = retryCount]
             skip == NextEvent(r, i, run[r].createdEvents)
         IN  IF outcome = NoError
             THEN \* createdEvents.push(response.data.id); success = true
                  /\ Created(ProviderId(r, i, retryCount))
                  /\ Continues(r, NextEvent(r, i, Append(run[r].createdEvents,
                                                         ProviderId(r, i, retryCount))),
                               [log2 EXCEPT ![r].ids[i] = ProviderId(r, i, retryCount)],
                               salog2)
             ELSE /\ UNCHANGED remote
                  /\ IF IsRateLimit(outcome)
                     THEN \* wait 2000 * retryCount, then the while test
                          Continues(r, IF RetryAllowed(retryCount) THEN retry ELSE skip,
                                    log2, salog2)
                     ELSE IF IsAuthExpired(outcome)
                     THEN \* throw new Error('Calendar authentication expired...')
                          Throws(r, AuthExpiredMessage, log2, salog2)
                     ELSE IF retryCount >= maxRetries
                     THEN \* 'Max retries reached for event creation. Skipping.'; break
                          Continues(r, skip, log2, salog2)
                     ELSE \* wait 1000 * retryCount, then the while test
                          Continues(r, IF RetryAllowed(retryCount) THEN retry ELSE skip,
                                    log2, salog2)
    /\ UNCHANGED <<now, impl, isConnected, isActive, nEvents, calendarSync, calStarted>>

\* optimized router: one calendar.events.insert of the batch in flight resolves
\* (its id) or rejects (null); with the last one Promise.all resolves, the ids
\* that are not null are pushed, and the next batch or the update is issued
RunBatchInsert(r) ==
    /\ impl = "optimized"
    /\ run[r].pc = "batch"
    /\ \E k \in run[r].pending, outcome \in Outcomes :
         LET id == IF outcome = NoError THEN ProviderId(r, k, 1) ELSE 0
             batchResults == [run[r].batchResults EXCEPT ![k] = id]
             pending == run[r].pending \ {k}
             to == Min(run[r].i + eventBatchSize - 1, EventsToCreate(r))
             validIds == ValidIds(batchResults, run[r].i, to)
             calls == runLog[r].calls + 1
             rejected == CredentialRejected(outcome)
             log2 == [runLog EXCEPT ![r].attempts[k] = @ + 1, ![r].calls = calls,
                         ![r].ids[k] = id,
                         ![r].authAt = IF @ = 0 /\ rejected THEN calls ELSE @]
             salog2 == [saLog EXCEPT !.calls[r] = @ + 1,
                         !.authAt = IF @ = 0 /\ rejected THEN PositionOf(r) ELSE @]
         IN  /\ IF outcome = NoError THEN Created(id)
                ELSE UNCHANGED remote
             /\ IF pending # {}
                THEN Continues(r, [run[r] EXCEPT !.pending = pending,
                                                 !.batchResults = batchResults],
                               log2, salog2)
                ELSE Continues(r, NextBatch(r, run[r].i + eventBatchSize,
                                            run[r].createdEvents \o validIds),
                               log2, salog2)
    /\ UNCHANGED <<now, impl, isConnected, isActive, nEvents, calendarSync, calStarted>>

\* Regimen.findByIdAndUpdate resolves: calendarSync is written and
\* { eventsCreated: createdEvents.length } returned; or the update rejects
RunPersist(r) ==
    /\ run[r].pc = "persist"
    /\ \E updated \in BOOLEAN :
         IF updated
         THEN /\ calendarSync' = [calendarSync EXCEPT ![r] =
                     [isEnabled |-> TRUE, lastSyncAt |-> run[r].stamp,
                      eventIds |-> run[r].createdEvents]]
              /\ Settled(r, SuccessEntry(r, Len(run[r].createdEvents)),
                         [runLog EXCEPT ![r].outcome = "returned",
                              ![r].eventsCreated = Len(run[r].createdEvents),
                              ![r].eventIds = calendarSync'[r].eventIds,
                              ![r].lastSyncAt = calendarSync'[r].lastSyncAt],
                         saLog)
         ELSE /\ UNCHANGED calendarSync
              /\ Throws(r, StoreErrorMessage, runLog, saLog)
    /\ UNCHANGED <<now, impl, isConnected, isActive, nEvents, remote, calStarted>>

\* the first lines of the handler: routes/calendar.js issues User.findById, the
\* optimized router calls memoryManager.checkMemoryAndGC() and goes straight to
\* Regimen.find
SyncAllBegin ==
    /\ sa.pc = "idle"
    /\ ~calStarted
    /\ calStarted' = TRUE
    /\ saLog' = NoSyncAllLog
    /\ IF impl = "calendar"
       THEN sa' = [NoSyncAll EXCEPT !.pc = "user"] /\ saResponse' = NoResponse
       ELSE \E gc \in CheckMemoryAndGC :
              IF gc = "returns"
              THEN sa' = [NoSyncAll EXCEPT !.pc = "find"] /\ saResponse' = NoResponse
              ELSE sa' = NoSyncAll /\ saResponse' = ErrorResponse(500)
    /\ UNCHANGED <<now, impl, isConnected, isActive, nEvents, calendarSync, remote,
                   run, runLog>>

\* routes/calendar.js: User.findById resolves; 400 when the calendar is not
\* connected, else Regimen.find is issued
SyncAllUser ==
    /\ sa.pc = "user"
    /\ \E found \in BOOLEAN :
         IF ~found
         THEN /\ sa' = NoSyncAll
              /\ \E error \in StoreErrors : saResponse' = SyncAllCatch(error)
         ELSE IF ~isConnected
         THEN sa' = NoSyncAll /\ saResponse' = ErrorResponse(400)
         ELSE sa' = [sa EXCEPT !.pc = "find"] /\ UNCHANGED saResponse
    /\ UNCHANGED <<now, impl, isConnected, isActive, nEvents, calendarSync, remote,
                   run, runLog, saLog, calStarted>>

\* Regimen.find resolves: with no active regimen the empty summary is sent; else
\* routes/calendar.js calls syncSingleRegimen for the first regimen and the
\* optimized router for the whole first batch
SyncAllFind ==
    /\ sa.pc = "find"
    /\ \E found \in BOOLEAN :
         LET regimens == ActiveRegimens
             first == IF impl = "calendar" THEN {regimens[1]}
                      ELSE RegimenBatch(regimens, 1)
         IN  IF ~found
             THEN /\ sa' = NoSyncAll
                  /\ \E error \in StoreErrors : saResponse' = SyncAllCatch(error)
                  /\ UNCHANGED <<run, runLog, saLog>>
             ELSE IF Len(regimens) = 0
             THEN \* { message, totalEvents: 0, results: [] }
                  /\ sa' = NoSyncAll
                  /\ \E gc \in CheckMemoryAndGC :
                         saResponse' =
                             IF impl = "calendar" \/ gc = "returns"
                             THEN [NoResponse EXCEPT !.status = 200, !.totalEvents = 0]
                             ELSE ErrorResponse(500)
                  /\ UNCHANGED <<run, runLog, saLog>>
             ELSE /\ \A x \in first : run[x].pc = "idle"
                  /\ sa' = [sa EXCEPT !.pc = IF impl = "calendar" THEN "await" ELSE "batch",
                                      !.regimens = regimens, !.idx = 1,
                                      !.waiting = IF impl = "calendar" THEN {} ELSE first]
                  /\ run' = StartRuns(run, first)
                  /\ runLog' = StartRunLogs(runLog, first)
                  /\ saLog' = [saLog EXCEPT !.attempted = first]
                  /\ UNCHANGED saResponse
    /\ UNCHANGED <<now, impl, isConnected, isActive, nEvents, calendarSync, remote,
                   calStarted>>

\* routes/calendar.js: the 200 ms (1000 ms between chunks of 3) timer has fired:
\* syncSingleRegimen is called for the next regimen of the list
SyncAllNext ==
    /\ sa.pc = "delay"
    /\ LET r == sa.regimens[sa.idx + 1]
       IN  /\ run[r].pc = "idle"
           /\ sa' = [sa EXCEPT !.pc = "await", !.idx = sa.idx + 1]
           /\ run' = StartRuns(run, {r})
           /\ runLog' = StartRunLogs(runLog, {r})
           /\ saLog' = [saLog EXCEPT !.attempted = @ \cup {r}]
    /\ UNCHANGED <<now, impl, isConnected, isActive, nEvents, calendarSync, remote,
                   saResponse, calStarted>>

\* routes/calendar.js: the 15 s timer wins Promise.race: the regimen is recorded
\* as failed; the call of syncSingleRegimen itself goes on, unawaited
SyncAllTimeout ==
    /\ sa.pc = "await"
    /\ LET r == sa.regimens[sa.idx]
       IN  /\ run[r].awaited
           /\ run' = [run EXCEPT ![r].awaited = FALSE]
           /\ RecordSeq(FailureEntry(r, TimeoutMessage))
           /\ saLog' = [saLog EXCEPT !.timedOut = @ \cup {r}]
    /\ UNCHANGED <<now, impl, isConnected, isActive, nEvents, calendarSync, remote,
                   runLog, calStarted>>

(***************************************************************************)
(* POST /api/calendar/sync-regimen/:regimenId                              *)
(***************************************************************************)
\* memoryManager.processInBatches(events, 5, ...)
syncBatchSize == 5

NoSyncRegimen ==
    [pc |-> "idle", regimen |-> 0, i |-> 0, createdEvents |-> <<>>, pending |-> {},
     batchResults |-> <<>>, results |-> <<>>]

\* what the request did at the provider: the ids of the events it created
NoSyncRegimenLog == [regimen |-> 0, created |-> <<>>, calls |-> 0]

NoSyncRegimenResponse == [status |-> 0, eventsCreated |-> Absent]

\* the id the provider gives the event at place i of the list of regimen r
SrId(r, i) == ProviderId(r, i, 0)

\* routes/calendar.js: after event i the next events.insert is issued, or the
\* update of the regimen
SrNextEvent(i, createdEvents) ==
    IF i < nEvents[sr.regimen]
    THEN [sr EXCEPT !.pc = "insert", !.i = i + 1, !.createdEvents = createdEvents]
    ELSE [sr EXCEPT !.pc = "persist", !.i = 0, !.createdEvents = createdEvents]

\* optimized router: processInBatches issues the batch that starts at `from`, or
\* returns its results, which the route drops: createdEvents is never pushed to
SrNextBatch(from, results) ==
    IF from <= nEvents[sr.regimen]
    THEN [sr EXCEPT !.pc = "batch", !.i = from, !.results = results,
             !.pending = BatchOf(from, nEvents[sr.regimen], syncBatchSize),
             !.batchResults =
                 [k \in BatchOf(from, nEvents[sr.regimen], syncBatchSize) |-> 0]]
    ELSE [sr EXCEPT !.pc = "persist", !.i = 0, !.results = results,
             !.pending = {}, !.batchResults = <<>>]

\* the request arrives: Regimen.findOne is issued
SrBegin(r) ==
    /\ sr.pc = "idle"
    /\ ~calStarted
    /\ calStarted' = TRUE
    /\ sr' = [NoSyncRegimen EXCEPT !.pc = "find", !.regimen = r]
    /\ srLog' = [NoSyncRegimenLog EXCEPT !.regimen = r]
    /\ srResponse' = NoSyncRegimenResponse
    /\ UNCHANGED <<calendarSync, remote>>

\* Regimen.findOne resolves (404 for no regimen) or rejects (500)
SrFind ==
    /\ sr.pc = "find"
    /\ \E answer \in {"found", "none", "rejected"} :
         IF answer = "found"
         THEN sr' = [sr EXCEPT !.pc = "user"] /\ UNCHANGED srResponse
         ELSE /\ sr' = NoSyncRegimen
              /\ srResponse' = [NoSyncRegimenResponse EXCEPT
                                   !.status = IF answer = "none" THEN 404 ELSE 500]
    /\ UNCHANGED <<srLog, calendarSync, remote, calStarted>>

\* User.findById resolves: 400 when the calendar is not connected; else the
\* events of the next 30 days are generated and the first events.insert
\* (optimized: the first batch) is issued
SrUser ==
    /\ sr.pc = "user"
    /\ \E found \in BOOLEAN :
         IF ~found
         THEN /\ sr' = NoSyncRegimen
              /\ srResponse' = [NoSyncRegimenResponse EXCEPT !.status = 500]
         ELSE IF ~isConnected
         THEN /\ sr' = NoSyncRegimen
              /\ srResponse' = [NoSyncRegimenResponse EXCEPT !.status = 400]
         ELSE /\ sr' = IF impl = "calendar" THEN SrNextEvent(0, <<>>)
                       ELSE SrNextBatch(1, <<>>)
              /\ UNCHANGED srResponse
    /\ UNCHANGED <<srLog, calendarSync, remote, calStarted>>

\* routes/calendar.js: events.insert of event sr.i resolves (its id is pushed)
\* or rejects (logged, the loop goes on)
SrInsert ==
    /\ impl = "calendar"
    /\ sr.pc = "insert"
    /\ \E outcome \in Outcomes :
         LET id == SrId(sr.regimen, sr.i)
         IN  IF outcome = NoError
             THEN /\ Created(id)
                  /\ sr' = SrNextEvent(sr.i, Append(sr.createdEvents, id))
                  /\ srLog' = [srLog EXCEPT !.created = Append(@, id),
                                            !.calls = @ + 1]
             ELSE /\ UNCHANGED remote
                  /\ sr' = SrNextEvent(sr.i, sr.createdEvents)
                  /\ srLog' = [srLog EXCEPT !.calls = @ + 1]
    /\ UNCHANGED <<srResponse, calendarSync, calStarted>>

\* optimized router: one events.insert of the batch in flight resolves (its
\* record) or rejects (null); with the last one the processor returns the
\* records that are not null and processInBatches pushes them to its results
SrBatchInsert ==
    /\ impl = "optimized"
    /\ sr.pc = "batch"
    /\ \E k \in sr.pending, outcome \in Outcomes :
         LET id == IF outcome = NoError THEN SrId(sr.regimen, k) ELSE 0
             batchResults == [sr.batchResults EXCEPT ![k] = id]
             pending == sr.pending \ {k}
             to == Min(sr.i + syncBatchSize - 1, nEvents[sr.regimen])
         IN  /\ IF outcome = NoError
                THEN Created(id) /\ srLog' = [srLog EXCEPT !.created = Append(@, id),
                                                           !.calls = @ + 1]
                ELSE UNCHANGED remote /\ srLog' = [srLog EXCEPT !.calls = @ + 1]
             /\ sr' = IF pending # {}
                      THEN [sr EXCEPT !.pending = pending, !.batchResults = batchResults]
                      ELSE SrNextBatch(sr.i + syncBatchSize,
                               sr.results \o ValidIds(batchResults, sr.i, to))
    /\ UNCHANGED <<srResponse, calendarSync, calStarted>>

\* Regimen.findByIdAndUpdate resolves: calendarSync is written with
\* createdEvents.map(e => e.googleEventId) and eventsCreated:
\* createdEvents.length is answered (optimized: after checkMemoryAndGC); or the
\* update rejects
SrPersist ==
    /\ sr.pc = "persist"
    /\ sr' = NoSyncRegimen
    /\ \E updated \in BOOLEAN, gc \in CheckMemoryAndGC :
         IF updated
         THEN /\ calendarSync' = [calendarSync EXCEPT ![sr.regimen] =
                     [isEnabled |-> TRUE, lastSyncAt |-> now,
                      eventIds |-> sr.createdEvents]]
              /\ srResponse' =
                     IF impl = "calendar" \/ gc = "returns"
                     THEN [status |-> 200, eventsCreated |-> Len(sr.createdEvents)]
                     ELSE [NoSyncRegimenResponse EXCEPT !.status = 500]
         ELSE /\ UNCHANGED calendarSync
              /\ srResponse' = [NoSyncRegimenResponse EXCEPT !.status = 500]
    /\ UNCHANGED <<srLog, remote, calStarted>>

(***************************************************************************)
(* MemoryManager.processInBatches(items, batchSize, processor)             *)
(***************************************************************************)
\* the calls: a list of up to MaxItems items, a batch size of 1..MaxBatchSize
ItemCounts == 0..MaxItems
BatchSizes == 1..MaxBatchSize

NoBatches ==
    [pc |-> "idle", n |-> 0, batchSize |-> 0, i |-> 0, pending |-> {},
     batchResults |-> <<>>, results |-> <<>>, error |-> FALSE]

\* what the call did: how often each item was handed to the processor, the
\* batches in the order they were started, what the processor returned for
\* each, whether a batch was started with calls of the one before in flight,
\* and how often forceGC ran
NoBatchesLog ==
    [handed |-> [k \in 1..MaxItems |-> 0], batches |-> <<>>, returns |-> <<>>,
     overlapped |-> FALSE, gcs |-> 0]

\* what the processor resolves with for item k: the id of what it created
ItemId(k) == 1000 + k

\* if (i % (batchSize * 5) === 0) this.forceGC(), i the 0-based start of the batch
GcDue(from, batchSize) == (from - 1) % (batchSize * 5) = 0

\* a plausible slip: the loop test is off by one, the last item starts no batch
PbNextBatchStoppingShort(call, from, results) ==
    IF from < call.n
    THEN [call EXCEPT !.pc = "batch", !.i = from, !.results = results,
             !.pending = BatchOf(from, call.n, call.batchSize),
             !.batchResults = [k \in BatchOf(from, call.n, call.batchSize) |-> 0]]
    ELSE [call EXCEPT !.pc = "returned", !.i = 0, !.results = results,
             !.pending = {}, !.batchResults = <<>>]

\* for (let i = 0; i < items.length; i += batchSize): items.slice(i, i +
\* batchSize) is handed to the processor, or the results are returned
PbNextBatch(call, from, results) ==
    IF from <= call.n
    THEN [call EXCEPT !.pc = "batch", !.i = from, !.results = results,
             !.pending = BatchOf(from, call.n, call.batchSize),
             !.batchResults = [k \in BatchOf(from, call.n, call.batchSize) |-> 0]]
    ELSE [call EXCEPT !.pc = "returned", !.i = 0, !.results = results,
             !.pending = {}, !.batchResults = <<>>]

\* the log of the segment that made `next`: a batch was started, or none, with
\* the calls `inFlight` not yet resolved
PbStarted(next, log2, inFlight) ==
    IF next.pc = "batch"
    THEN [log2 EXCEPT
             !.handed = [k \in 1..MaxItems |-> IF k \in next.pending THEN @[k] + 1 ELSE @[k]],
             !.batches = Append(@, <<next.i, Min(next.i + next.batchSize - 1, next.n)>>),
             !.overlapped = @ \/ inFlight # {}]
    ELSE log2

\* processInBatches is called: it runs up to its first await
PbCall(n, batchSize) ==
    /\ pb.pc = "idle"
    /\ LET next == PbNextBatch([NoBatches EXCEPT !.n = n, !.batchSize = batchSize],
                               1, <<>>)
       IN  /\ pb' = next
           /\ pbLog' = PbStarted(next, NoBatchesLog, {})

\* one call of the batch in flight resolves, with an id or with null; with the
\* last one the processor returns the ids that are not null, they are pushed
\* to results, forceGC runs when due, and the next batch is started or the
\* results are returned
PbResolve ==
    /\ pb.pc = "batch"
    /\ \E k \in pb.pending, made \in BOOLEAN :
         LET batchResults == [pb.batchResults EXCEPT ![k] = IF made THEN ItemId(k) ELSE 0]
             pending == pb.pending \ {k}
             to == Min(pb.i + pb.batchSize - 1, pb.n)
             validIds == ValidIds(batchResults, pb.i, to)
             next == PbNextBatch(pb, pb.i + pb.batchSize, pb.results \o validIds)
         IN  IF pending # {}
             THEN /\ pb' = [pb EXCEPT !.pending = pending, !.batchResults = batchResults]
                  /\ UNCHANGED pbLog
             ELSE /\ pb' = next
                  /\ pbLog' = PbStarted(next,
                         [pbLog EXCEPT !.returns = Append(@, validIds),
                             !.gcs = IF GcDue(pb.i, pb.batchSize) THEN @ + 1 ELSE @],
                         pending)

\* the processor rejects while its batch is in flight: the error is logged and
\* thrown again; the calls of the batch still in flight go on
PbThrow ==
    /\ pb.pc = "batch"
    /\ pb' = [pb EXCEPT !.pc = "thrown", !.error = TRUE]
    /\ UNCHANGED pbLog

\* a call left in flight by a processor that rejected resolves, unobserved
PbLate ==
    /\ pb.pc = "thrown"
    /\ \E k \in pb.pending : pb' = [pb EXCEPT !.pending = @ \ {k}]
    /\ UNCHANGED pbLog

(***************************************************************************)
(* calendarService (frontend): the calendar status cache                   *)
(***************************************************************************)
\* CACHE_DURATION = 2 * 60 * 1000; the clock of the page counts minutes
cacheDuration == 2

\* data: null
NoData == [isNull |-> TRUE, isConnected |-> FALSE]

\* the object GET /calendar/status answers
StatusData(connected) == [isNull |-> FALSE, isConnected |-> connected]

\* let calendarStatusCache = { data: null, timestamp: null, ... }
EmptyCache == [data |-> NoData, timestamp |-> NoDate]

\* calendarStatusCache.isValid() at the instant t
IsValid(cache, t) ==
    IF cache.data = NoData \/ cache.timestamp = NoDate THEN FALSE
    ELSE t - cache.timestamp < cacheDuration

ConnectionChanges == {"handleCallback", "disconnect", "disconnectCalendar"}

\* no call of getConnectionStatus is in flight
NoStatusCall == [pc |-> "idle", forceRefresh |-> FALSE]

\* no call that changes the connection is in flight
NoChangeCall == [pc |-> "idle", op |-> ""]

\* the last return of getConnectionStatus: the object, whether it came from the
\* cache, how old the cache was, and whether the connection had changed since
\* the object was cached
NoStatusLog ==
    [returns |-> 0, data |-> NoData, fromCache |-> FALSE, forceRefresh |-> FALSE,
     hadData |-> FALSE, age |-> 0, outdated |-> FALSE, changedBy |-> ""]

\* getConnectionStatus(forceRefresh) is called: the cached object is returned,
\* or GET /calendar/status is issued
GetConnectionStatusBegin(forceRefresh) ==
    /\ gs.pc = "idle"
    /\ IF ~forceRefresh /\ IsValid(statusCache, clock)
       THEN /\ gs' = NoStatusCall
            /\ csLog' = [returns |-> 1 - csLog.returns, data |-> statusCache.data,
                         fromCache |-> TRUE, forceRefresh |-> forceRefresh,
                         hadData |-> TRUE, age |-> clock - statusCache.timestamp,
                         outdated |-> cacheOutdated # "", changedBy |-> cacheOutdated]
       ELSE /\ gs' = [pc |-> "get", forceRefresh |-> forceRefresh]
            /\ csLog' = [csLog EXCEPT !.fromCache = FALSE,
                            !.forceRefresh = forceRefresh,
                            !.hadData = statusCache.data # NoData,
                            !.age = IF statusCache.timestamp = NoDate THEN 0
                                    ELSE clock - statusCache.timestamp]
    /\ UNCHANGED <<statusCache, cacheOutdated, ch, isConnected, clock>>

\* GET /calendar/status resolves (the answer is cached and returned) or rejects
GetConnectionStatusEnd ==
    /\ gs.pc = "get"
    /\ gs' = NoStatusCall
    /\ \E answered \in BOOLEAN :
         IF answered
         THEN /\ statusCache' = [data |-> StatusData(isConnected),
                                 timestamp |-> clock]
              /\ cacheOutdated' = ""
              /\ csLog' = [csLog EXCEPT !.returns = 1 - @,
                              !.data = StatusData(isConnected),
                              !.outdated = FALSE, !.changedBy = ""]
         ELSE UNCHANGED <<statusCache, cacheOutdated, csLog>>
    /\ UNCHANGED <<ch, isConnected, clock>>

\* handleCallback, disconnect or disconnectCalendar is called: its request is
\* issued
ChangeBegin(op) ==
    /\ ch.pc = "idle"
    /\ ch' = [pc |-> "request", op |-> op]
    /\ UNCHANGED <<statusCache, cacheOutdated, gs, csLog, isConnected, clock>>

\* the calls that clear the cache when their request has succeeded
ClearsCache(op) == op = "handleCallback"

\* the request resolves (the backend has connected or disconnected the
\* calendar) or rejects
ChangeEnd ==
    /\ ch.pc = "request"
    /\ ch' = NoChangeCall
    /\ \E succeeded \in BOOLEAN :
         IF succeeded
         THEN /\ isConnected' = (ch.op = "handleCallback")
              /\ IF ClearsCache(ch.op)
                 THEN statusCache' = EmptyCache /\ cacheOutdated' = ""
                 ELSE /\ UNCHANGED statusCache
                      /\ cacheOutdated' =
                             IF statusCache.data = NoData
                                \/ statusCache.data.isConnected = isConnected'
                             THEN cacheOutdated
                             ELSE ch.op
         ELSE UNCHANGED <<isConnected, statusCache, cacheOutdated>>
    /\ UNCHANGED <<gs, csLog, clock>>

\* a minute passes
ClockTick ==
    /\ clock < MaxClock
    /\ clock' = clock + 1
    /\ UNCHANGED <<statusCache, cacheOutdated, gs, ch, csLog, isConnected>>

(***************************************************************************)
(* DELETE /api/calendar/regimen/:regimenId                                 *)
(***************************************************************************)
\* memoryManager.processInBatches(eventIds, 5, ...)
deleteBatchSize == 5

\* $unset: { calendarSync: 1 }
NoCalendarSync == [isEnabled |-> FALSE, lastSyncAt |-> NoDate, eventIds |-> <<>>]

NoRemove ==
    [pc |-> "idle", regimen |-> 0, eventIds |-> <<>>, i |-> 0, deletedCount |-> 0,
     pending |-> {}]

NoRemoveLog == [regimen |-> 0, eventIds |-> <<>>, attempts |-> <<>>, deleted |-> {}]

NoRemoveResponse == [status |-> 0, eventsDeleted |-> Absent]

\* a plausible slip: the loop over the ids stops one id short
NextDeleteOffByOne(i, deletedCount) ==
    IF i + 1 < Len(rm.eventIds)
    THEN [rm EXCEPT !.pc = "delete", !.i = i + 1, !.deletedCount = deletedCount]
    ELSE [rm EXCEPT !.pc = "unset", !.i = 0, !.deletedCount = deletedCount]

\* the segment after the deletion of eventIds[i], in routes/calendar.js: the next
\* events.delete is issued, or Regimen.findByIdAndUpdate with the $unset
NextDelete(i, deletedCount) ==
    IF i < Len(rm.eventIds)
    THEN [rm EXCEPT !.pc = "delete", !.i = i + 1, !.deletedCount = deletedCount]
    ELSE [rm EXCEPT !.pc = "unset", !.i = 0, !.deletedCount = deletedCount]

\* the same for the optimized router: the next batch of 5 deletions is issued
\* at once, or, after the last batch (or with no id at all), the update
NextDeleteBatch(from, deletedCount) ==
    IF from <= Len(rm.eventIds)
    THEN [rm EXCEPT !.pc = "batch", !.i = from, !.deletedCount = deletedCount,
                    !.pending = BatchOf(from, Len(rm.eventIds), deleteBatchSize)]
    ELSE [rm EXCEPT !.pc = "unset", !.i = 0, !.deletedCount = deletedCount,
                    !.pending = {}]

\* the answers events.delete can give for an id: it succeeds only for an event
\* the provider holds
DeleteOutcomes(id) ==
    IF id \in remote THEN Outcomes ELSE ProviderErrors

\* Regimen.findOne is issued
RemoveBegin(r) ==
    /\ rm.pc = "idle"
    /\ sa.pc = "idle"
    /\ ~calStarted
    /\ calStarted' = TRUE
    /\ rm' = [NoRemove EXCEPT !.pc = "find", !.regimen = r]
    /\ rmLog' = [NoRemoveLog EXCEPT !.regimen = r]
    /\ rmResponse' = NoRemoveResponse
    /\ UNCHANGED <<now, impl, isConnected, isActive, nEvents, calendarSync, remote,
                   run, runLog, sa, saLog, saResponse, dcLog>>

\* Regimen.findOne resolves with the regimen document (its calendarSync as of
\* now); User.findById is issued
RemoveFind ==
    /\ rm.pc = "find"
    /\ \E found \in BOOLEAN :
         IF ~found
         THEN rm' = NoRemove /\ rmResponse' = [NoRemoveResponse EXCEPT !.status = 500]
                             /\ UNCHANGED rmLog
         ELSE /\ rm' = [rm EXCEPT !.pc = "user",
                                  !.eventIds = calendarSync[rm.regimen].eventIds]
              /\ rmLog' = [rmLog EXCEPT
                     !.eventIds = calendarSync[rm.regimen].eventIds,
                     !.attempts = [k \in 1..Len(calendarSync[rm.regimen].eventIds) |-> 0]]
              /\ UNCHANGED rmResponse
    /\ UNCHANGED <<now, impl, isConnected, isActive, nEvents, calendarSync, remote,
                   run, runLog, sa, saLog, saResponse, calStarted, dcLog>>

\* User.findById resolves: 400 when the calendar is not connected; else the
\* first events.delete (optimized: the first batch) or the update is issued
RemoveUser ==
    /\ rm.pc = "user"
    /\ \E found \in BOOLEAN :
         IF ~found
         THEN rm' = NoRemove /\ rmResponse' = [NoRemoveResponse EXCEPT !.status = 500]
         ELSE IF ~isConnected
         THEN rm' = NoRemove /\ rmResponse' = [NoRemoveResponse EXCEPT !.status = 400]
         ELSE /\ rm' = IF impl = "calendar" THEN NextDelete(0, 0)
                       ELSE NextDeleteBatch(1, 0)
              /\ UNCHANGED rmResponse
    /\ UNCHANGED <<now, impl, isConnected, isActive, nEvents, calendarSync, remote,
                   run, runLog, sa, saLog, saResponse, calStarted, rmLog, dcLog>>

\* routes/calendar.js: calendar.events.delete of eventIds[i] resolves
\* (deletedCount++) or rejects (logged)
RemoveDelete ==
    /\ impl = "calendar"
    /\ rm.pc = "delete"
    /\ \E outcome \in DeleteOutcomes(rm.eventIds[rm.i]) :
         /\ rmLog' = [rmLog EXCEPT !.attempts[rm.i] = @ + 1,
                         !.deleted = IF outcome = NoError
                                     THEN @ \cup {rm.eventIds[rm.i]} ELSE @]
         /\ IF outcome = NoError
            THEN /\ remote' = remote \ {rm.eventIds[rm.i]}
                 /\ rm' = NextDelete(rm.i, rm.deletedCount + 1)
            ELSE /\ UNCHANGED remote
                 /\ rm' = NextDelete(rm.i, rm.deletedCount)
    /\ UNCHANGED <<now, impl, isConnected, isActive, nEvents, calendarSync,
                   run, runLog, sa, saLog, saResponse, calStarted, rmResponse, dcLog>>

\* optimized router: one calendar.events.delete of the batch in flight resolves
\* (true) or rejects (false); with the last one the trues are added to
\* deletedCount and the next batch or the update is issued
RemoveBatchDelete ==
    /\ impl = "optimized"
    /\ rm.pc = "batch"
    /\ \E k \in rm.pending :
       \E outcome \in DeleteOutcomes(rm.eventIds[k]) :
         LET deleted == IF outcome = NoError THEN rmLog.deleted \cup {rm.eventIds[k]}
                        ELSE rmLog.deleted
             batch == BatchOf(rm.i, Len(rm.eventIds), deleteBatchSize)
             successCount == Cardinality({j \in batch : rm.eventIds[j] \in deleted})
         IN  /\ rmLog' = [rmLog EXCEPT !.attempts[k] = @ + 1, !.deleted = deleted]
             /\ remote' = IF outcome = NoError THEN remote \ {rm.eventIds[k]} ELSE remote
             /\ IF rm.pending # {k}
                THEN rm' = [rm EXCEPT !.pending = @ \ {k}]
                ELSE rm' = NextDeleteBatch(rm.i + deleteBatchSize,
                                           rm.deletedCount + successCount)
    /\ UNCHANGED <<now, impl, isConnected, isActive, nEvents, calendarSync,
                   run, runLog, sa, saLog, saResponse, calStarted, rmResponse, dcLog>>

\* Regimen.findByIdAndUpdate resolves: calendarSync is unset and (optimized
\* router: after memoryManager.checkMemoryAndGC()) { eventsDeleted: deletedCount }
\* sent; or the update rejects, 500
RemoveUnset ==
    /\ rm.pc = "unset"
    /\ rm' = NoRemove
    /\ \E updated \in BOOLEAN :
         IF updated
         THEN /\ calendarSync' = [calendarSync EXCEPT ![rm.regimen] = NoCalendarSync]
              /\ \E gc \in CheckMemoryAndGC :
                     rmResponse' =
                         IF impl = "calendar" \/ gc = "returns"
                         THEN [status |-> 200, eventsDeleted |-> rm.deletedCount]
                         ELSE [NoRemoveResponse EXCEPT !.status = 500]
         ELSE /\ UNCHANGED calendarSync
              /\ rmResponse' = [NoRemoveResponse EXCEPT !.status = 500]
    /\ UNCHANGED <<now, impl, isConnected, isActive, nEvents, remote,
                   run, runLog, sa, saLog, saResponse, calStarted, rmLog, dcLog>>

(***************************************************************************)
(* DELETE /api/calendar/disconnect                                         *)
(***************************************************************************)
NoDisconnectLog == [status |-> 0, deleteCalls |-> 0]

\* User.findByIdAndUpdate with $unset: { googleCalendar: 1 } resolves, then the
\* 200; or it rejects, 500.  The handler makes no other call.
Disconnect ==
    /\ rm.pc = "idle"
    /\ sa.pc = "idle"
    /\ ~calStarted
    /\ calStarted' = TRUE
    /\ \E updated \in BOOLEAN :
         IF updated
         THEN /\ isConnected' = FALSE
              /\ dcLog' = [status |-> 200, deleteCalls |-> 0]
         ELSE /\ UNCHANGED isConnected
              /\ dcLog' = [status |-> 500, deleteCalls |-> 0]
    /\ UNCHANGED <<now, impl, isActive, nEvents, calendarSync, remote,
                   run, runLog, sa, saLog, saResponse, rm, rmLog, rmResponse>>

(***************************************************************************)
(* generateCalendarEvents(regimen, days) and shouldTakeToday(regimen, date) *)
(***************************************************************************)
\* the longest window (`days`) generateCalendarEvents is called with
MaxWindow == 8

\* the two calls whose results are compared
GenCalls == {1, 2}

\* a time of the schedule, 'HH:MM', as time.split(':') and parseInt read it
Time(hours, minutes) == [hours |-> hours, minutes |-> minutes]

\* regimen.customSchedule is not set
NoSchedule == <<>>

\* the frequencies of a regimen
Frequencies ==
    {"once_daily", "twice_daily", "three_times_daily", "four_times_daily",
     "every_other_day", "weekly", "custom"}

\* the regimens the helper is called with: any frequency, any startDate of the
\* clock's range (at any time of day), a custom schedule (not in time order) or none
\* (customSchedule is read for the 'custom' frequency only, so the others carry none)
GenRegimens ==
    {regimen \in [frequency : Frequencies,
                  startDate : Times,
                  customSchedule : {NoSchedule, <<Time(20, 0), Time(8, 0)>>}] :
        regimen.frequency # "custom" => regimen.customSchedule = NoSchedule}

\* the windows the helper is called with: one day, two days, the longest window
GenDays == {1, 2, MaxWindow}

\* regimen.customSchedule.map(cs => cs.time), or the schedules table with its
\* default ['08:00']
ScheduleTimes(regimen) ==
    IF regimen.frequency = "custom" /\ regimen.customSchedule # NoSchedule
    THEN regimen.customSchedule
    ELSE CASE regimen.frequency = "once_daily" -> <<Time(8, 0)>>
           [] regimen.frequency = "twice_daily" -> <<Time(8, 0), Time(20, 0)>>
           [] regimen.frequency = "three_times_daily" ->
                  <<Time(8, 0), Time(14, 0), Time(20, 0)>>
           [] regimen.frequency = "four_times_daily" ->
                  <<Time(8, 0), Time(12, 0), Time(16, 0), Time(20, 0)>>
           [] OTHER -> <<Time(8, 0)>>

\* the % of JavaScript: the result has the sign of the dividend (-0 === 0)
JsRem(a, n) == IF a >= 0 THEN a % n ELSE 0 - ((0 - a) % n)

\* Math.floor((date - startDate) / (1000 * 60 * 60 * 24)), then the switch
ShouldTakeToday(regimen, date) ==
    LET daysDiff == (date - regimen.startDate) \div DayLen
    IN  CASE regimen.frequency = "every_other_day" -> JsRem(daysDiff, 2) = 0
          [] regimen.frequency = "weekly" -> JsRem(daysDiff, 7) = 0
          [] OTHER -> TRUE

\* eventStart.setHours(hours, minutes, 0, 0) on the day of currentDate, and
\* eventEnd 15 minutes later: both in minutes since day 0, 00:00
CalendarEvent(currentDate, time) ==
    LET eventStart == DayOf(currentDate) * 1440 + time.hours * 60 + time.minutes
    IN  [start |-> eventStart, end |-> eventStart + 15]

\* scheduleTimes.forEach(time => events.push(...))
EventsOfDay(currentDate, scheduleTimes) ==
    [k \in 1..Len(scheduleTimes) |-> CalendarEvent(currentDate, scheduleTimes[k])]

\* while (currentDate <= endDate) { ...; currentDate.setDate(getDate() + 1) }
RECURSIVE EventsFrom(_, _, _)
EventsFrom(regimen, currentDate, endDate) ==
    IF currentDate > endDate THEN <<>>
    ELSE (IF ShouldTakeToday(regimen, currentDate)
          THEN EventsOfDay(currentDate, ScheduleTimes(regimen))
          ELSE <<>>)
             \o EventsFrom(regimen, currentDate + DayLen, endDate)

\* a plausible slip: the events array kept at module level, so that a call
\* appends to what the calls before it left
GenerateCalendarEventsShared(regimen, days, t) ==
    (IF \E c \in GenCalls : genResult[c].at # NoDate
     THEN genResult[CHOOSE c \in GenCalls : genResult[c].at # NoDate].events
     ELSE <<>>) \o EventsFrom(regimen, t, t + days * DayLen)

\* generateCalendarEvents(regimen, days) called at instant t: startDate = new
\* Date(), endDate = new Date(Date.now() + days * 24 h)
GenerateCalendarEvents(regimen, days, t) ==
    EventsFrom(regimen, t, t + days * DayLen)

\* no call made
NoResult == [at |-> NoDate, events |-> <<>>]

\* one call of generateCalendarEvents; the calls are numbered in the order made
Generate(c) ==
    /\ genResult[c] = NoResult
    /\ \A earlier \in GenCalls : earlier < c => genResult[earlier] # NoResult
    /\ genResult' = [genResult EXCEPT ![c] =
           [at |-> now, events |-> GenerateCalendarEvents(genRegimen, genDays, now)]]
    /\ UNCHANGED <<genRegimen, genDays>>

\* the level fields of a points total
\* a plausible slip: the distance to the next multiple of 100, which is 0 at a
\* multiple of 100
PointsToNextLevelCeiling(totalPoints) ==
    ((totalPoints + 99) \div 100) * 100 - totalPoints

\* (Math.floor(totalPoints / 100) + 1) * 100 - totalPoints
PointsToNextLevel(totalPoints) == ((totalPoints \div 100) + 1) * 100 - totalPoints

\* Math.floor(totalPoints / 100) + 1
CurrentLevel(totalPoints) == (totalPoints \div 100) + 1

(***************************************************************************)
(* The dose log (DoseLog collection) and the reward helpers that read it.  *)
(***************************************************************************)
\* the most doses the log of the user holds
MaxDoses == 2

\* the points a taken dose carries in dose.rewards.points
DosePoints == 7

\* the days doses are scheduled on; the last one lies after every `today`
DoseDays == 0..MaxDays

\* a dose log entry: the instant it was due, its status ('skipped' and 'pending'
\* are read like 'missed' by every helper below) and, for a taken dose, whether
\* |scheduledTime - (actualTime or updatedAt)| <= 900000 ms
Doses ==
    {dose \in [scheduledTime : {d * DayLen : d \in DoseDays},
               status : {"taken", "missed"},
               onTime : BOOLEAN] :
        dose.status # "taken" => ~dose.onTime}

\* the collection is read as a multiset: how many entries of each kind
NoDoses == [dose \in Doses |-> 0]

RECURSIVE SumOver(_, _)
SumOver(logs, doses) ==
    IF doses = {} THEN 0
    ELSE LET dose == CHOOSE dose \in doses : TRUE
         IN  logs[dose] + SumOver(logs, doses \ {dose})

Taken(dose) == dose.status = "taken"

\* the kinds a $match on status: 'taken' keeps, and those of them taken on time
TakenDoses == {dose \in Doses : Taken(dose)}
OnTimeDoses == {dose \in TakenDoses : dose.onTime}

\* the queries of the reward summary that reach the store
Queries ==
    {"user", "recent", "streak", "stats", "statsStreak", "weeklyAdherence",
     "monthlyAdherence", "daily", "weekly"}

\* the queries that fail during one request: none, one of them, or all of them
Failures == {{}} \cup {{query} : query \in Queries} \cup {Queries}

RECURSIVE SortDescending(_)
SortDescending(dates) ==
    IF dates = {} THEN <<>>
    ELSE LET latest == CHOOSE latest \in dates : \A date \in dates : date <= latest
         IN  <<latest>> \o SortDescending(dates \ {latest})

\* $limit: 365
streakLimit == 365

\* the pipeline of calculateCurrentStreakFast: the dates with a taken dose,
\* latest first, at most 365 of them
GroupedDates(logs) ==
    LET dates  == {DayOf(dose.scheduledTime) :
                      dose \in {dose \in TakenDoses : logs[dose] > 0}}
        sorted == SortDescending(dates)
    IN  SubSeq(sorted, 1, Min(Len(sorted), streakLimit))

\* the loop over groupedDates: the group must be the date of today - streak
RECURSIVE StreakLoop(_, _, _)
StreakLoop(groupedDates, today, streak) ==
    IF groupedDates = <<>> THEN streak
    ELSE IF Head(groupedDates) = today - streak
         THEN StreakLoop(Tail(groupedDates), today, streak + 1)
         ELSE streak

\* calculateCurrentStreakFast; its catch returns 0
CalculateCurrentStreakFast(logs, t, failed) ==
    IF failed THEN 0
    ELSE StreakLoop(GroupedDates(logs), DayOf(t), 0)

\* completed / total * 100 is kept as the fraction num/den; 0/0 stands for NaN
Fraction(num, den) == [num |-> num, den |-> den]
Zero == Fraction(0, 1)

PercentageUnguarded(completed, total) == Fraction(completed * 100, total)

\* stats.total > 0 ? (stats.completed / stats.total) * 100 : 0
Percentage(completed, total) ==
    IF total > 0 THEN Fraction(completed * 100, total) ELSE Zero

AtLeast(fraction, n) == fraction.den > 0 /\ fraction.num >= n * fraction.den

NoProgress == [total |-> 0, completed |-> 0, percentage |-> Zero]

\* the $group of the progress pipelines over the entries of a window
ProgressOver(logs, window) ==
    LET total     == SumOver(logs, window)
        completed == SumOver(logs, window \cap TakenDoses)
    IN  [total |-> total, completed |-> completed,
         percentage |-> Percentage(completed, total)]

\* getDailyProgressFast: scheduledTime in [today 00:00, tomorrow 00:00)
GetDailyProgressFast(logs, t, failed) ==
    IF failed THEN NoProgress
    ELSE ProgressOver(logs,
             {dose \in Doses : /\ dose.scheduledTime >= DayOf(t) * DayLen
                               /\ dose.scheduledTime < (DayOf(t) + 1) * DayLen})

\* getWeeklyProgressFast: scheduledTime >= now - 7 days
GetWeeklyProgressFast(logs, t, failed) ==
    IF failed THEN NoProgress
    ELSE ProgressOver(logs, {dose \in Doses : dose.scheduledTime >= t - 7 * DayLen})

\* calculateWeeklyAdherenceFast, calculateMonthlyAdherenceFast: the share of
\* taken doses among those due in the last `days` days, 0 for none
AdherenceFast(logs, t, days, failed) ==
    IF failed THEN Zero
    ELSE LET progress == ProgressOver(logs,
                             {dose \in Doses : dose.scheduledTime >= t - days * DayLen})
         IN  IF progress.total = 0 THEN Zero ELSE progress.percentage

\* the catalogue of getAchievementDefinitions
AchievementIds ==
    {"first_dose", "perfect_week", "early_bird", "consistency_champion",
     "month_master", "perfect_timing", "streak_starter"}

\* calculateAchievementsFast: the ids it returns; its catch returns []
CalculateAchievementsFast(logs, t, failed) ==
    IF "stats" \in failed THEN {}
    ELSE LET totalTaken         == SumOver(logs, TakenDoses)
             perfectTimingCount == SumOver(logs, OnTimeDoses)
             currentStreak      == CalculateCurrentStreakFast(logs, t,
                                       "statsStreak" \in failed)
             weeklyAdherence    == AdherenceFast(logs, t, 7,
                                       "weeklyAdherence" \in failed)
             monthlyAdherence   == AdherenceFast(logs, t, 30,
                                       "monthlyAdherence" \in failed)
         IN  {id \in AchievementIds :
                 \/ id = "first_dose" /\ totalTaken >= 1
                 \/ id = "perfect_timing" /\ perfectTimingCount >= 10
                 \/ id = "streak_starter" /\ currentStreak >= 7
                 \/ id = "month_master" /\ currentStreak >= 30
                 \/ id = "perfect_week" /\ AtLeast(weeklyAdherence, 100)
                 \/ id = "consistency_champion" /\ AtLeast(monthlyAdherence, 95)}

Progress(current, target) == [current |-> current, target |-> target]

\* getAchievementProgressFast, over the doses the route fetched
GetAchievementProgressFast(achievementId, doseLogs_) ==
    LET takenDoses    == SumOver(doseLogs_, TakenDoses)
        perfectTiming == SumOver(doseLogs_, OnTimeDoses)
    IN  CASE achievementId = "first_dose" -> Progress(Min(takenDoses, 1), 1)
          [] achievementId = "perfect_timing" -> Progress(Min(perfectTiming, 10), 10)
          [] achievementId = "streak_starter" -> Progress(Min(7, 7), 7)
          [] achievementId = "month_master" -> Progress(Min(takenDoses, 30), 30)
          [] achievementId = "perfect_week" -> Progress(0, 1)
          [] achievementId = "consistency_champion" -> Progress(0, 1)
          [] OTHER -> Progress(0, 1)

\* .limit(100)
recentLimit == 100

\* DoseLog.find(...).sort({ scheduledTime: -1 }).limit(100): the latest entries
\* of the log, up to the limit
RECURSIVE RecentFrom(_, _, _)
RecentFrom(logs, doses, limit) ==
    IF doses = {} \/ limit = 0 THEN NoDoses
    ELSE LET latest == CHOOSE dose \in doses :
                           \A other \in doses :
                               other.scheduledTime <= dose.scheduledTime
             kept   == Min(logs[latest], limit)
         IN  [RecentFrom(logs, doses \ {latest}, limit - kept)
                 EXCEPT ![latest] = kept]

RecentDoses(logs) == RecentFrom(logs, Doses, recentLimit)

\* the reduce over recentDoses: rewards.points of the taken doses
DosePointsOf(recentDoses) == SumOver(recentDoses, TakenDoses) * DosePoints

NoSummary == [status |-> 0]
ErrorSummary == [status |-> 500]
NoSummaryLog == [failed |-> {}, at |-> NoDate]

\* res.json of GET /consolidated
SummaryResponse(userPoints, logs, t, failed) ==
    LET recentDoses  == RecentDoses(logs)
        totalPoints  == userPoints + DosePointsOf(recentDoses)
        achievements == CalculateAchievementsFast(logs, t, failed)
    IN  [status |-> 200,
         totalPoints |-> totalPoints,
         currentLevel |-> CurrentLevel(totalPoints),
         pointsToNextLevel |-> PointsToNextLevel(totalPoints),
         currentStreak |-> CalculateCurrentStreakFast(logs, t, "streak" \in failed),
         dailyProgress |-> GetDailyProgressFast(logs, t, "daily" \in failed),
         weeklyProgress |-> GetWeeklyProgressFast(logs, t, "weekly" \in failed),
         achievements |->
             [id \in AchievementIds |->
                 [unlocked |-> id \in achievements,
                  progress |-> GetAchievementProgressFast(id, recentDoses)]]]

\* GET /consolidated: the two finds, the four helpers, the response; a failing
\* find and a failing checkMemoryAndGC reach the catch of the route
ConsolidatedFailing(failures) ==
    /\ summary = NoSummary
    /\ \E failed \in failures, gc \in CheckMemoryAndGC :
           /\ summaryLog' = [failed |-> failed, at |-> now]
           /\ summary' =
                  IF failed \cap {"user", "recent"} # {} \/ gc = "TypeError"
                  THEN ErrorSummary
                  ELSE SummaryResponse(totalRewardPoints, doseLogs, now, failed)
    /\ UNCHANGED doseLogs

Consolidated == ConsolidatedFailing(Failures)

\* the request while every store query succeeds
ConsolidatedReachable == ConsolidatedFailing({{}})

\* one call of calculateAchievementsFast (GET /achievements, GET /consolidated)
\* while the store answers
CalculateAchievements ==
    /\ reported' = reported \cup lastReport
    /\ lastReport' = CalculateAchievementsFast(doseLogs, now, {})

\* a dose is logged (by the dose routes, which are not part of this model), in
\* a log that is followed up to `most` entries
LogDose(dose, most) ==
    /\ SumOver(doseLogs, Doses) < most
    /\ doseLogs' = [doseLogs EXCEPT ![dose] = @ + 1]
    /\ UNCHANGED <<summary, summaryLog>>

AddDose(dose) == LogDose(dose, MaxDoses)

\* GET /user/:userId? and GET /consolidated while the store answers: the
\* totalPoints of the response, the stored points plus the points of the
\* recent doses
UserRewards ==
    /\ pointsBefore' = pointsNow
    /\ pointsNow' = totalRewardPoints + DosePointsOf(RecentDoses(doseLogs))

(***************************************************************************)
(* The rewards store of the frontend (useRewardsStore).                    *)
(***************************************************************************)
\* the most points the store is followed to
MaxPoints == 120

\* the bonus a dose reward may carry in reward.bonusPoints
BonusPoints == 3

\* the rewards addDoseReward is called with: bonusPoints may be absent
DoseRewards == [points : {DosePoints}, bonusPoints : {0, BonusPoints}]

\* the answers of POST /claim-daily that claimReward resolves or rejects with
ClaimAnswers == {200, 400, 500}

\* the initial userRewards of the store
InitialUserRewards == [totalPoints |-> 0, currentLevel |-> 1, pointsToNextLevel |-> 100]

\* the update both actions make: the points are added and the two level
\* fields are recomputed from the sum
WithPoints(userRewards, points) ==
    [totalPoints |-> userRewards.totalPoints + points,
     currentLevel |-> CurrentLevel(userRewards.totalPoints + points),
     pointsToNextLevel |-> PointsToNextLevel(userRewards.totalPoints + points)]

\* claimDailyReward, up to its await
StoreClaimBegin ==
    /\ storePc = "idle"
    /\ storePc' = "claiming"
    /\ store' = [store EXCEPT !.loading = TRUE, !.error = FALSE]

\* claimDailyReward, after its await: result.points of the answer is added, or
\* the rejection is kept as the error
StoreClaimEnd ==
    /\ storePc = "claiming"
    /\ storePc' = "idle"
    /\ \E answer \in ClaimAnswers :
           IF answer = 200
           THEN /\ store.userRewards.totalPoints + dailyRewardPoints <= MaxPoints
                /\ store' = [store EXCEPT
                       !.userRewards = WithPoints(@, dailyRewardPoints),
                       !.dailyRewardClaimed = TRUE,
                       !.loading = FALSE]
           ELSE store' = [store EXCEPT !.error = TRUE, !.loading = FALSE]

\* addDoseReward(reward)
AddDoseReward(reward) ==
    /\ store.userRewards.totalPoints + reward.points + reward.bonusPoints <= MaxPoints
    /\ store' = [store EXCEPT
           !.userRewards = WithPoints(@, reward.points + reward.bonusPoints)]
    /\ UNCHANGED storePc

(***************************************************************************)
(* useRewardsStore.fetchUserRewards (frontend)                             *)
(***************************************************************************)
\* CACHE_DURATION = 5 * 60 * 1000, in minutes
fetchCacheDuration == 5

\* the generatedAt a persisted store may start with: none, fresh, or expired
PersistedStamps == {NoDate, 0, 0 - fetchCacheDuration}

\* cacheAge < CACHE_DURATION, with cacheAge = Date.now() - new
\* Date(generatedAt).getTime(): NaN for a generatedAt that is not set, and NaN
\* is less than nothing
CacheIsFresh(stamp, t) ==
    IF stamp = NoDate THEN FALSE ELSE t - stamp < fetchCacheDuration

\* the test that guards the cached return
SkipTested(forceRefresh) == store.loading \/ (~forceRefresh /\ generatedAt # NoDate)

\* the totalPoints an answer may carry
FetchedPoints == {0, dailyRewardPoints}

NoFetchLog == [calls |-> 0, forceRefresh |-> FALSE, wasLoading |-> FALSE, issued |-> FALSE]

\* fetchUserRewards(userId, forceRefresh) up to its await: the stored
\* userRewards is returned, or loading is set and the request issued
FetchUserRewards(forceRefresh) ==
    /\ fetching < MaxFetches
    /\ LET cached == SkipTested(forceRefresh) /\ CacheIsFresh(generatedAt, clock)
       IN  /\ fetchLog' = [calls |-> 1 - fetchLog.calls, forceRefresh |-> forceRefresh,
                           wasLoading |-> store.loading, issued |-> ~cached]
           /\ IF cached
              THEN UNCHANGED <<store, fetching>>
              ELSE /\ store' = [store EXCEPT !.loading = TRUE, !.error = FALSE]
                   /\ fetching' = fetching + 1
    /\ UNCHANGED <<generatedAt, storePc>>

\* one RewardService.getUserRewards resolves (userRewards is replaced by the
\* answer, generatedAt the time of the answer) or rejects
FetchEnd ==
    /\ fetching > 0
    /\ fetching' = fetching - 1
    /\ \E answered \in BOOLEAN, points \in FetchedPoints :
         IF answered
         THEN /\ store' = [store EXCEPT !.loading = FALSE,
                              !.userRewards = WithPoints(InitialUserRewards, points)]
              /\ generatedAt' = clock
         ELSE /\ store' = [store EXCEPT !.loading = FALSE, !.error = TRUE]
              /\ UNCHANGED generatedAt
    /\ UNCHANGED <<fetchLog, storePc>>

(***************************************************************************)
(* Initial states and specifications.                                      *)
(***************************************************************************)
\* no helper was called
GenAtRest ==
    /\ genRegimen = [frequency |-> "once_daily", startDate |-> 0,
                     customSchedule |-> NoSchedule]
    /\ genDays = 1
    /\ genResult = [c \in GenCalls |-> NoResult]

\* no summary was asked for, and the dose log is empty
SummaryAtRest ==
    /\ doseLogs = NoDoses
    /\ summary = NoSummary
    /\ summaryLog = NoSummaryLog

\* the store as created
StoreAtRest ==
    /\ store = [userRewards |-> InitialUserRewards, dailyRewardClaimed |-> FALSE,
                loading |-> FALSE, error |-> FALSE]
    /\ storePc = "idle"

\* calculateAchievementsFast was not called
AchievementsAtRest == reported = {} /\ lastReport = {}

\* no sync-regimen request was made
SyncRegimenAtRest ==
    /\ sr = NoSyncRegimen
    /\ srLog = NoSyncRegimenLog
    /\ srResponse = NoSyncRegimenResponse

\* processInBatches was not called
BatchesAtRest == pb = NoBatches /\ pbLog = NoBatchesLog

\* the page has loaded calendarService and called nothing
CacheAtRest ==
    /\ statusCache = EmptyCache
    /\ cacheOutdated = ""
    /\ gs = NoStatusCall
    /\ ch = NoChangeCall
    /\ csLog = NoStatusLog
    /\ clock = 0

\* the store as created: no generatedAt, nothing fetched
FetchAtRest == generatedAt = NoDate /\ fetching = 0 /\ fetchLog = NoFetchLog

\* no rewards response yet
PointsAtRest == pointsNow = Absent /\ pointsBefore = Absent

OthersAtRest ==
    SyncRegimenAtRest /\ BatchesAtRest /\ CacheAtRest /\ FetchAtRest /\ PointsAtRest

HelpersAtRest ==
    GenAtRest /\ SummaryAtRest /\ StoreAtRest /\ AchievementsAtRest /\ OthersAtRest

NoClaimInFlight == \A r \in Requests : claimPc[r] = "idle"

ClaimAtRest ==
    /\ lastDailyRewardClaim = NoDate
    /\ claimPc = [r \in Requests |-> "idle"]
    /\ claimToday = [r \in Requests |-> 0]
    /\ claimStamp = [r \in Requests |-> 0]
    /\ claimStarted = 0
    /\ claimLog = [d \in Days |-> [ok |-> 0, rejected |-> 0, gained |-> 0]]
    /\ claimResponse = [r \in Requests |-> 0]
    /\ claimSpanned = FALSE

InitClaim ==
    /\ now = 0
    /\ totalRewardPoints = 0
    /\ ClaimAtRest

\* the calendar side at rest
CalendarAtRest ==
    /\ run = [r \in Regimens |-> NoRun]
    /\ runLog = [r \in Regimens |-> NoRunLog]
    /\ sa = NoSyncAll
    /\ saLog = NoSyncAllLog
    /\ saResponse = NoResponse
    /\ rm = NoRemove
    /\ rmLog = NoRemoveLog
    /\ rmResponse = NoRemoveResponse
    /\ dcLog = NoDisconnectLog
    /\ calStarted = FALSE

\* the regimens yield MaxEvents, MaxEvents - 1, ... events, down the list
EventCounts == [r \in Regimens |-> (MaxEvents + 1 - r) % (MaxEvents + 1)]

\* generateCalendarEvents yields MaxEvents events for the first regimen and none
\* for the others (no dose falls in the window), or one event for every regimen
LongFirst == [r \in Regimens |-> IF r = 1 THEN MaxEvents ELSE 0]

OneEach == [r \in Regimens |-> 1]

\* a user whose regimens were never synced
InitCalendar ==
    /\ impl \in {"calendar", "optimized"}
    /\ isConnected \in BOOLEAN
    /\ isActive \in [Regimens -> BOOLEAN]
    /\ nEvents \in {LongFirst, OneEach}
    /\ calendarSync = [r \in Regimens |-> NoCalendarSync]
    /\ remote = {}
    /\ CalendarAtRest

\* the ids a sync of regimen r stored: r's share of the ids 1, 2, ...
RECURSIVE IdsBefore(_)
IdsBefore(r) == IF r = 1 THEN 0 ELSE IdsBefore(r - 1) + EventCounts[r - 1]

SyncedIds(r) == [k \in 1..EventCounts[r] |-> IdsBefore(r) + k]

\* a user whose regimens were synced, every event created; since then the user
\* may have deleted some of the events at the provider
InitSynced ==
    /\ impl \in {"calendar", "optimized"}
    /\ isConnected \in BOOLEAN
    /\ isActive = [r \in Regimens |-> TRUE]
    /\ nEvents = EventCounts
    /\ calendarSync = [r \in Regimens |->
           [isEnabled |-> TRUE, lastSyncAt |-> 0, eventIds |-> SyncedIds(r)]]
    /\ remote \in SUBSET (1..IdsBefore(MaxRegimens + 1))
    /\ CalendarAtRest

\* the rewards side at rest, a user who never claimed; the calendar side of a
\* user who never synced
InitRewards ==
    /\ HelpersAtRest
    /\ InitClaim
    /\ InitCalendar
    /\ impl = "calendar"
    /\ isConnected
    /\ isActive = [r \in Regimens |-> TRUE]

InitSync == HelpersAtRest /\ InitClaim /\ InitCalendar

InitRemove == HelpersAtRest /\ InitClaim /\ InitSynced

claimOnlyVars == <<totalRewardPoints, lastDailyRewardClaim, claimPc, claimToday,
                   claimStamp, claimStarted, claimLog, claimResponse, claimSpanned>>

rmVars == <<rm, rmLog, rmResponse, dcLog>>

\* one user's claim-daily requests arriving in any interleaving
NextClaim ==
    \/ \E r \in Requests : ClaimBegin(r) /\ UNCHANGED <<calVars, fnVars>>
    \/ \E r \in Requests : ClaimFind(r) /\ UNCHANGED <<calVars, fnVars>>
    \/ \E r \in Requests : ClaimUpdate(r) /\ UNCHANGED <<calVars, fnVars>>
    \/ Tick /\ UNCHANGED <<claimOnlyVars, calVars, fnVars>>

SpecClaim == InitRewards /\ [][NextClaim]_vars

\* one user's requests issued one after the other: a request begins only when
\* the previous one has been answered
NextClaimSeq ==
    \/ \E r \in Requests : NoClaimInFlight /\ ClaimBegin(r) /\ UNCHANGED <<calVars, fnVars>>
    \/ \E r \in Requests : ClaimFind(r) /\ UNCHANGED <<calVars, fnVars>>
    \/ \E r \in Requests : ClaimUpdate(r) /\ UNCHANGED <<calVars, fnVars>>
    \/ Tick /\ UNCHANGED <<claimOnlyVars, calVars, fnVars>>

SpecClaimSeq == InitRewards /\ [][NextClaimSeq]_vars

\* one POST /calendar/sync-all request, from its first line to its response and
\* to the end of the calls of syncSingleRegimen it left behind
NextSync ==
    \/ SyncAllBegin /\ UNCHANGED <<rmVars, claimOnlyVars, fnVars>>
    \/ SyncAllUser /\ UNCHANGED <<rmVars, claimOnlyVars, fnVars>>
    \/ SyncAllFind /\ UNCHANGED <<rmVars, claimOnlyVars, fnVars>>
    \/ SyncAllNext /\ UNCHANGED <<rmVars, claimOnlyVars, fnVars>>
    \/ SyncAllTimeout /\ UNCHANGED <<rmVars, claimOnlyVars, fnVars>>
    \/ \E r \in Regimens : RunUser(r) /\ UNCHANGED <<rmVars, claimOnlyVars, fnVars>>
    \/ \E r \in Regimens : RunInsert(r) /\ UNCHANGED <<rmVars, claimOnlyVars, fnVars>>
    \/ \E r \in Regimens : RunBatchInsert(r) /\ UNCHANGED <<rmVars, claimOnlyVars, fnVars>>
    \/ \E r \in Regimens : RunPersist(r) /\ UNCHANGED <<rmVars, claimOnlyVars, fnVars>>

SpecSync == InitSync /\ [][NextSync]_vars

\* one DELETE /calendar/regimen/:regimenId or DELETE /calendar/disconnect
\* request of a user whose regimens were synced before
NextRemove ==
    \/ \E r \in Regimens : RemoveBegin(r) /\ UNCHANGED <<claimOnlyVars, fnVars>>
    \/ RemoveFind /\ UNCHANGED <<claimOnlyVars, fnVars>>
    \/ RemoveUser /\ UNCHANGED <<claimOnlyVars, fnVars>>
    \/ RemoveDelete /\ UNCHANGED <<claimOnlyVars, fnVars>>
    \/ RemoveBatchDelete /\ UNCHANGED <<claimOnlyVars, fnVars>>
    \/ RemoveUnset /\ UNCHANGED <<claimOnlyVars, fnVars>>
    \/ Disconnect /\ UNCHANGED <<claimOnlyVars, fnVars>>

SpecRemove == InitRemove /\ [][NextRemove]_vars

\* generateCalendarEvents called twice for one regimen, at any instants
InitGenerate ==
    /\ OthersAtRest
    /\ SummaryAtRest
    /\ StoreAtRest
    /\ AchievementsAtRest
    /\ InitClaim
    /\ InitCalendar
    /\ impl = "calendar"
    /\ isConnected
    /\ isActive = [r \in Regimens |-> TRUE]
    /\ nEvents = OneEach
    /\ genRegimen \in GenRegimens
    /\ genDays \in GenDays
    /\ genResult = [c \in GenCalls |-> NoResult]

NextGenerate ==
    \/ \E c \in GenCalls : Generate(c) /\ UNCHANGED <<claimVars, calVars, sumVars, storeVars, achVars, otherVars>>
    \/ Tick /\ UNCHANGED <<claimOnlyVars, calVars, fnVars>>

SpecGenerate == InitGenerate /\ [][NextGenerate]_vars

\* generateCalendarEvents yields one event more than the cut of
\* syncSingleRegimen for the second regimen, none for the others
LongList == [r \in Regimens |-> IF r = 2 THEN maxEventsPerRegimen + 1 ELSE 0]

\* a user of routes/calendar.js, never synced, with two active regimens, the
\* second with a list longer than the cut
InitLongList ==
    /\ HelpersAtRest
    /\ InitClaim
    /\ impl = "calendar"
    /\ isConnected \in BOOLEAN
    /\ isActive = [r \in Regimens |-> r <= 2]
    /\ nEvents = LongList
    /\ calendarSync = [r \in Regimens |-> NoCalendarSync]
    /\ remote = {}
    /\ CalendarAtRest

\* the provider calls of the call for regimen r that were rejected
FailedCalls(r) ==
    runLog[r].calls - Cardinality({k \in DOMAIN runLog[r].ids : runLog[r].ids[k] # 0})

\* what went wrong in the request so far: the rejected provider calls of the
\* regimens 1..r and the timers that fired
RECURSIVE Faults(_)
Faults(r) ==
    IF r = 0 THEN Cardinality(saLog.timedOut) ELSE FailedCalls(r) + Faults(r - 1)

\* one sync-all request over the long list, in which at most MaxFaults provider
\* calls are rejected or timers fire
NextLongList ==
    \/ SyncAllBegin /\ UNCHANGED <<rmVars, claimOnlyVars, fnVars>>
    \/ SyncAllUser /\ UNCHANGED <<rmVars, claimOnlyVars, fnVars>>
    \/ SyncAllFind /\ UNCHANGED <<rmVars, claimOnlyVars, fnVars>>
    \/ SyncAllNext /\ UNCHANGED <<rmVars, claimOnlyVars, fnVars>>
    \/ /\ SyncAllTimeout
       /\ Faults(MaxRegimens)' <= MaxFaults
       /\ UNCHANGED <<rmVars, claimOnlyVars, fnVars>>
    \/ \E r \in Regimens : RunUser(r) /\ UNCHANGED <<rmVars, claimOnlyVars, fnVars>>
    \/ \E r \in Regimens :
          /\ RunInsert(r)
          /\ Faults(MaxRegimens)' <= MaxFaults
          /\ UNCHANGED <<rmVars, claimOnlyVars, fnVars>>
    \/ \E r \in Regimens : RunPersist(r) /\ UNCHANGED <<rmVars, claimOnlyVars, fnVars>>

SpecLongList == InitLongList /\ [][NextLongList]_vars

\* one sync-regimen request of a user who never synced
InitSyncRegimen == InitSync

\* what the steps of sync-regimen leave alone
srOthers == <<now, impl, isConnected, isActive, nEvents, run, runLog, sa, saLog,
              saResponse, rmVars, claimOnlyVars, genVars, sumVars, storeVars, achVars,
              pbVars, cacheVars, fetchVars, pointVars>>

NextSyncRegimen ==
    \/ \E r \in Regimens : SrBegin(r) /\ UNCHANGED srOthers
    \/ SrFind /\ UNCHANGED srOthers
    \/ SrUser /\ UNCHANGED srOthers
    \/ SrInsert /\ UNCHANGED srOthers
    \/ SrBatchInsert /\ UNCHANGED srOthers
    \/ SrPersist /\ UNCHANGED srOthers

SpecSyncRegimen == InitSyncRegimen /\ [][NextSyncRegimen]_vars

\* one call of processInBatches
InitBatches ==
    /\ InitClaim
    /\ InitCalendar
    /\ impl = "optimized"
    /\ isConnected
    /\ isActive = [r \in Regimens |-> TRUE]
    /\ nEvents = OneEach
    /\ HelpersAtRest

pbOthers == <<claimVars, calVars, genVars, sumVars, storeVars, achVars, srVars,
              cacheVars, fetchVars, pointVars>>

NextBatches ==
    \/ \E n \in ItemCounts, batchSize \in BatchSizes :
          PbCall(n, batchSize) /\ UNCHANGED pbOthers
    \/ PbResolve /\ UNCHANGED pbOthers
    \/ PbThrow /\ UNCHANGED pbOthers
    \/ PbLate /\ UNCHANGED pbOthers

SpecBatches == InitBatches /\ [][NextBatches]_vars

\* the page of one user calling calendarService
InitCache ==
    /\ InitClaim
    /\ InitCalendar
    /\ impl = "calendar"
    /\ isActive = [r \in Regimens |-> TRUE]
    /\ nEvents = OneEach
    /\ HelpersAtRest

csOthers == <<now, impl, isActive, nEvents, calendarSync, remote, run, runLog, sa,
              saLog, saResponse, rmVars, calStarted, claimOnlyVars, genVars, sumVars,
              storeVars, achVars, srVars, pbVars, fetchVars, pointVars>>

NextCache ==
    \/ \E forceRefresh \in BOOLEAN :
          GetConnectionStatusBegin(forceRefresh) /\ UNCHANGED csOthers
    \/ GetConnectionStatusEnd /\ UNCHANGED csOthers
    \/ \E op \in ConnectionChanges : ChangeBegin(op) /\ UNCHANGED csOthers
    \/ ChangeEnd /\ UNCHANGED csOthers
    \/ ClockTick /\ UNCHANGED csOthers

SpecCache == InitCache /\ [][NextCache]_vars

\* the store of one page, created or rehydrated from what persist kept
InitFetch ==
    /\ InitClaim
    /\ InitCalendar
    /\ impl = "calendar"
    /\ isConnected
    /\ isActive = [r \in Regimens |-> TRUE]
    /\ nEvents = OneEach
    /\ GenAtRest
    /\ SummaryAtRest
    /\ StoreAtRest
    /\ AchievementsAtRest
    /\ SyncRegimenAtRest
    /\ BatchesAtRest
    /\ CacheAtRest
    /\ PointsAtRest
    /\ generatedAt \in PersistedStamps
    /\ fetching = 0
    /\ fetchLog = NoFetchLog

fsOthers == <<claimVars, calVars, genVars, sumVars, achVars, srVars, pbVars,
              statusCache, cacheOutdated, gs, ch, csLog, pointVars>>

NextFetch ==
    \/ \E forceRefresh \in BOOLEAN :
          FetchUserRewards(forceRefresh) /\ UNCHANGED <<fsOthers, clock>>
    \/ FetchEnd /\ UNCHANGED <<fsOthers, clock>>
    \/ StoreClaimBegin /\ UNCHANGED <<fsOthers, clock, fetchVars>>
    \/ StoreClaimEnd /\ UNCHANGED <<fsOthers, clock, fetchVars>>
    \/ ClockTick /\ UNCHANGED <<fsOthers, storeVars, fetchVars>>

SpecFetch == InitFetch /\ [][NextFetch]_vars

\* a log of `n` taken doses, all due on day 0
TakenOnDayZero(n) ==
    [dose \in Doses |->
        IF dose = [scheduledTime |-> 0, status |-> "taken", onTime |-> FALSE]
        THEN n ELSE 0]

\* the rewards responses of a user whose log fills the window of the recent
\* doses, or lacks one dose to fill it, while doses are logged and the daily
\* bonus is claimed
InitPoints ==
    /\ InitClaim
    /\ InitCalendar
    /\ impl = "calendar"
    /\ isConnected
    /\ isActive = [r \in Regimens |-> TRUE]
    /\ nEvents = OneEach
    /\ GenAtRest
    /\ StoreAtRest
    /\ AchievementsAtRest
    /\ OthersAtRest
    /\ doseLogs \in {TakenOnDayZero(recentLimit - 1), TakenOnDayZero(recentLimit)}
    /\ summary = NoSummary
    /\ summaryLog = NoSummaryLog

ptOthers == <<calVars, genVars, storeVars, achVars, srVars, pbVars, cacheVars,
              fetchVars>>

NextPoints ==
    \/ \E dose \in Doses :
          LogDose(dose, recentLimit + 1)
              /\ UNCHANGED <<ptOthers, claimVars, pointVars>>
    \/ ClaimBegin(1) /\ UNCHANGED <<ptOthers, sumVars, pointVars>>
    \/ ClaimFind(1) /\ UNCHANGED <<ptOthers, sumVars, pointVars>>
    \/ ClaimUpdate(1) /\ UNCHANGED <<ptOthers, sumVars, pointVars>>
    \/ UserRewards /\ UNCHANGED <<ptOthers, sumVars, claimVars>>

SpecPoints == InitPoints /\ [][NextPoints]_vars

\* the reward summary of a user whose dose log grows as time passes; a behaviour
\* is followed up to the response of the request
InitSummary == InitRewards

NextSummary ==
    \/ \E dose \in Doses :
           summary = NoSummary /\ AddDose(dose)
               /\ UNCHANGED <<claimVars, calVars, genVars, storeVars, achVars, otherVars>>
    \/ summary = NoSummary /\ Tick
           /\ UNCHANGED <<claimOnlyVars, calVars, fnVars>>
    \/ Consolidated /\ UNCHANGED <<claimVars, calVars, genVars, storeVars, achVars, otherVars>>

SpecSummary == InitSummary /\ [][NextSummary]_vars

\* the achievements of a user whose dose log grows as time passes
InitAchievements == InitRewards

NextAchievements ==
    \/ \E dose \in Doses :
           AddDose(dose) /\ UNCHANGED <<claimVars, calVars, genVars, storeVars, achVars, otherVars>>
    \/ Tick /\ UNCHANGED <<claimOnlyVars, calVars, fnVars>>
    \/ CalculateAchievements
           /\ UNCHANGED <<claimVars, calVars, genVars, sumVars, storeVars, otherVars>>

SpecAchievements == InitAchievements /\ [][NextAchievements]_vars

\* the points the user document may hold: multiples of the daily reward
BaselinePoints == {k * dailyRewardPoints : k \in 0..(MaxPoints \div dailyRewardPoints)}

\* the logs of n doses taken late on day 0
TakenLogs ==
    {[dose \in Doses |->
         IF dose = [scheduledTime |-> 0, status |-> "taken", onTime |-> FALSE]
         THEN n ELSE 0] : n \in 0..MaxDoses}

\* the store from its creation, next to a backend whose user document and dose
\* log hold points already
InitStore ==
    /\ OthersAtRest
    /\ GenAtRest
    /\ StoreAtRest
    /\ AchievementsAtRest
    /\ now = 0
    /\ totalRewardPoints \in BaselinePoints
    /\ ClaimAtRest
    /\ InitCalendar
    /\ impl = "calendar"
    /\ isConnected
    /\ isActive = [r \in Regimens |-> TRUE]
    /\ nEvents = OneEach
    /\ doseLogs \in TakenLogs
    /\ summary = NoSummary
    /\ summaryLog = NoSummaryLog

NextStore ==
    \/ StoreClaimBegin /\ UNCHANGED <<claimVars, calVars, genVars, sumVars, achVars, otherVars>>
    \/ StoreClaimEnd /\ UNCHANGED <<claimVars, calVars, genVars, sumVars, achVars, otherVars>>
    \/ \E reward \in DoseRewards :
           AddDoseReward(reward) /\ UNCHANGED <<claimVars, calVars, genVars, sumVars, achVars, otherVars>>
    \/ ConsolidatedReachable /\ UNCHANGED <<claimVars, calVars, genVars, storeVars, achVars, otherVars>>

SpecStore == InitStore /\ [][NextStore]_vars

(***************************************************************************)
(* Claims about the daily claim.                                           *)
(***************************************************************************)
\* the days on which some request was answered by the date check or the award
DaysAnswered == {d \in Days : claimLog[d].ok + claimLog[d].rejected > 0}

\* C1: sequential claim-daily requests whose instant falls on one calendar day
\* add exactly 10 points in total: the first one the store serves is awarded,
\* every later one is rejected with 400 and changes nothing; one request on
\* each of n consecutive days adds 10 n (30 for 3 days).  A request is taken
\* at one instant: it does not span midnight.
C1_DailyClaimOncePerDay ==
    ~claimSpanned =>
        /\ \A d \in Days :
             /\ claimLog[d].ok <= 1
             /\ claimLog[d].gained = dailyRewardPoints * claimLog[d].ok
             /\ claimLog[d].rejected > 0 => claimLog[d].ok = 1
        /\ NoClaimInFlight =>
             /\ \A d \in DaysAnswered : claimLog[d].ok = 1
             /\ totalRewardPoints = dailyRewardPoints * Cardinality(DaysAnswered)
        /\ lastDailyRewardClaim # NoDate =>
             /\ claimLog[DayOf(lastDailyRewardClaim)].ok = 1
             /\ \A d \in Days : d > DayOf(lastDailyRewardClaim) => claimLog[d].ok = 0

\* C1 witness: a request on each of 3 consecutive days, a second request
\* rejected on one of them, 30 points in total
C1_Witness ==
    /\ ~claimSpanned
    /\ NoClaimInFlight
    /\ \A d \in 0..2 : claimLog[d].ok = 1
    /\ \E d \in 0..2 : claimLog[d].rejected = 1
    /\ totalRewardPoints = 30

\* C2: two concurrent claim-daily requests of one day are awarded once: the
\* date check and the increment act as one compare-and-set
C2_ConcurrentClaimAwardedOnce ==
    \A d \in Days :
        /\ claimLog[d].ok <= 1
        /\ claimLog[d].gained <= dailyRewardPoints

(***************************************************************************)
(* Claims about syncSingleRegimen.                                         *)
(***************************************************************************)
\* the ids events.insert returned in the call for regimen r, in the order of
\* the events
ConfirmedIds(r) == SelectSeq(runLog[r].ids, LAMBDA id : id # 0)

\* the elements of a sequence
Range(seq) == {seq[k] : k \in 1..Len(seq)}

\* the events.insert calls the call for regimen r made for its events 1..k
RECURSIVE CallsThrough(_, _)
CallsThrough(r, k) ==
    IF k = 0 THEN 0 ELSE CallsThrough(r, k - 1) + runLog[r].attempts[k]

\* every attempt of event k of regimen r failed, none of them by a rejected
\* credential, and the retry cap was reached
SkippedEvent(r, k) ==
    /\ runLog[r].attempts[k] = maxRetries
    /\ runLog[r].ids[k] = 0
    /\ ~(CallsThrough(r, k - 1) < runLog[r].authAt
            /\ runLog[r].authAt <= CallsThrough(r, k))

\* C3: when syncSingleRegimen returns, the persisted calendarSync.eventIds is
\* exactly the sequence of the ids the successful events.insert calls of this
\* run returned (each one an event the provider holds), its length is the
\* returned eventsCreated, which never exceeds the number of events attempted,
\* and calendarSync.lastSyncAt is set to the time of the update
C3_PersistedIdsAreConfirmedIds ==
    \A r \in Regimens :
        runLog[r].outcome = "returned" =>
            /\ runLog[r].eventIds = ConfirmedIds(r)
            /\ calendarSync[r].eventIds = ConfirmedIds(r)
            /\ Range(calendarSync[r].eventIds) \subseteq remote
            /\ Len(runLog[r].eventIds) = runLog[r].eventsCreated
            /\ runLog[r].eventsCreated
                   <= Cardinality({k \in DOMAIN runLog[r].attempts :
                                      runLog[r].attempts[k] > 0})
            /\ runLog[r].eventsCreated <= EventsToCreate(r)
            /\ calendarSync[r].isEnabled
            /\ calendarSync[r].lastSyncAt # NoDate
            /\ calendarSync[r].lastSyncAt = runLog[r].lastSyncAt
            /\ runLog[r].lastSyncAt >= runLog[r].startedAt

\* C3 witness: a call that returned with some of its events created and some not
C3_Witness ==
    \E r \in Regimens :
        /\ runLog[r].outcome = "returned"
        /\ runLog[r].eventsCreated >= 1
        /\ runLog[r].eventsCreated < EventsToCreate(r)
        /\ Len(calendarSync[r].eventIds) = runLog[r].eventsCreated

\* C6: in routes/calendar.js, once an events.insert of a regimen fails with a
\* rejected credential (401 or invalid_grant), that call of syncSingleRegimen
\* makes no further events.insert call, persists nothing, and throws the
\* reconnect error, which its caller (unless it had stopped waiting) records
C6_AuthErrorStopsRegimenSync ==
    impl = "calendar" =>
        \A r \in Regimens :
            runLog[r].authAt # 0 =>
                /\ runLog[r].calls = runLog[r].authAt
                /\ run[r].pc = "idle"
                /\ runLog[r].outcome = "thrown"
                /\ runLog[r].error = AuthExpiredMessage
                /\ calendarSync[r] = NoCalendarSync
                /\ r \notin saLog.timedOut =>
                       FailureEntry(r, AuthExpiredMessage)
                           \in Range(sa.results) \cup Range(saResponse.results)

\* C6 witness: the credential is rejected on the second call for the first
\* event, and the later events are never attempted
C6_Witness ==
    /\ impl = "calendar"
    /\ nEvents[1] >= 2
    /\ runLog[1].authAt = 2
    /\ runLog[1].attempts[1] = 2
    /\ runLog[1].attempts[2] = 0
    /\ runLog[1].outcome = "thrown"

\* C7: every event gets at most 3 events.insert attempts; a call that is at
\* attempt retryCount + 1 of event i has made at most 3 (i - 1) + retryCount
\* calls, so that the calls made and the calls still possible never exceed
\* 3 x (number of events to create), and the call ends
C7_AtMostThreeAttemptsPerEvent ==
    \A r \in Regimens :
        /\ \A k \in DOMAIN runLog[r].attempts : runLog[r].attempts[k] <= maxRetries
        /\ runLog[r].calls = CallsThrough(r, Len(runLog[r].attempts))
        /\ runLog[r].calls <= maxRetries * EventsToCreate(r)
        /\ run[r].pc = "insert" =>
               /\ run[r].i \in 1..EventsToCreate(r)
               /\ run[r].retryCount < maxRetries
               /\ runLog[r].calls <= maxRetries * (run[r].i - 1) + run[r].retryCount

\* C7 witness: a call that used all 3 attempts of each of its (two or more)
\* events and returned
C7_Witness ==
    \E r \in Regimens :
        /\ impl = "calendar"
        /\ EventsToCreate(r) >= 2
        /\ runLog[r].calls = maxRetries * EventsToCreate(r)
        /\ runLog[r].outcome = "returned"

\* C8: in routes/calendar.js an event whose 3 attempts all failed, none by a
\* rejected credential, is skipped: none of its attempts left an id, the call
\* did not throw over it and went on to the next event, and a call that
\* returned has attempted every later event and recorded those it created
C8_FailedEventSkipped ==
    impl = "calendar" =>
        \A r \in Regimens :
            \A k \in DOMAIN runLog[r].attempts :
                SkippedEvent(r, k) =>
                    /\ \A a \in 1..maxRetries :
                           ProviderId(r, k, a) \notin
                               remote \cup Range(run[r].createdEvents)
                                      \cup Range(calendarSync[r].eventIds)
                    /\ run[r].pc = "insert" => run[r].i > k
                    /\ runLog[r].outcome = "thrown" =>
                           \/ runLog[r].authAt > CallsThrough(r, k)
                           \/ runLog[r].error = StoreErrorMessage
                    /\ runLog[r].outcome = "returned" =>
                           \A j \in DOMAIN runLog[r].attempts :
                               j > k =>
                                   /\ runLog[r].attempts[j] >= 1
                                   /\ runLog[r].ids[j] # 0 =>
                                          runLog[r].ids[j]
                                              \in Range(calendarSync[r].eventIds)

\* C8 witness: the first event was skipped after 3 failures, the next one was
\* created, and the call returned with that one id
C8_Witness ==
    /\ impl = "calendar"
    /\ nEvents[1] >= 2
    /\ runLog[1].outcome = "returned"
    /\ SkippedEvent(1, 1)
    /\ runLog[1].authAt = 0
    /\ runLog[1].ids[2] # 0
    /\ calendarSync[1].eventIds = <<runLog[1].ids[2]>>

(***************************************************************************)
(* Claims about POST /calendar/sync-all.                                   *)
(***************************************************************************)
\* the sum of eventsCreated over the entries 1..k of a results list
RECURSIVE SumEventsCreated(_, _)
SumEventsCreated(results, k) ==
    IF k = 0 THEN 0 ELSE SumEventsCreated(results, k - 1) + results[k].eventsCreated

\* C4: in routes/calendar.js, once an events.insert for the regimen at position
\* k of the list fails with a rejected credential, no provider call is made for
\* the regimens after it, they are not attempted, and the response is not a
\* plain 200
C4_AuthExpiryStopsSyncAll ==
    (impl = "calendar" /\ saLog.authAt # 0) =>
        /\ \A k \in 1..Len(ActiveRegimens) :
               k > saLog.authAt =>
                   /\ runLog[ActiveRegimens[k]].calls = 0
                   /\ ActiveRegimens[k] \notin saLog.attempted
        /\ saResponse.status # 200

\* C5: when no credential was rejected, the 200 response of sync-all over one
\* or more active regimens holds one results entry per active regimen, successCount + failureCount is the number
\* of active regimens, totalEvents is the sum of eventsCreated, every failed
\* entry has eventsCreated = 0 and an error text, and every regimen was attempted
C5_SyncAllStructuredResult ==
    (saResponse.status = 200 /\ saLog.authAt = 0 /\ Len(ActiveRegimens) >= 1) =>
        /\ Len(saResponse.results) = Len(ActiveRegimens)
        /\ \A k \in 1..Len(saResponse.results) :
               /\ saResponse.results[k].regimenId = ActiveRegimens[k]
               /\ ~saResponse.results[k].success =>
                      /\ saResponse.results[k].eventsCreated = 0
                      /\ saResponse.results[k].error # ""
        /\ saResponse.successCount + saResponse.failureCount = Len(ActiveRegimens)
        /\ saResponse.totalEvents
               = SumEventsCreated(saResponse.results, Len(saResponse.results))
        /\ saLog.attempted = Range(ActiveRegimens)

(***************************************************************************)
(* Claims about DELETE /calendar/regimen/:regimenId and /disconnect.       *)
(***************************************************************************)
\* C9: for a connected user events.delete is called at most once per listed
\* id, and when the request is answered 200 it was called exactly once for
\* every id, calendarSync is unset whatever the deletions did, and
\* eventsDeleted is the number of deletions that succeeded
C9_RemoveDeletesEachIdOnce ==
    /\ \A k \in DOMAIN rmLog.attempts : rmLog.attempts[k] <= 1
    /\ Cardinality(rmLog.deleted)
           <= Cardinality({k \in DOMAIN rmLog.attempts : rmLog.attempts[k] = 1})
    /\ rmResponse.status = 200 =>
           /\ isConnected
           /\ \A k \in DOMAIN rmLog.attempts : rmLog.attempts[k] = 1
           /\ Len(rmLog.attempts) = Len(rmLog.eventIds)
           /\ calendarSync[rmLog.regimen] = NoCalendarSync
           /\ rmResponse.eventsDeleted = Cardinality(rmLog.deleted)
           /\ rmResponse.eventsDeleted \in 0..Len(rmLog.eventIds)
           /\ rmLog.deleted \cap remote = {}

\* C9 witness: a regimen with two or more ids, one deletion succeeded and one
\* failed, calendarSync unset, 200
C9_Witness ==
    /\ rmResponse.status = 200
    /\ Len(rmLog.eventIds) >= 2
    /\ rmResponse.eventsDeleted >= 1
    /\ rmResponse.eventsDeleted < Len(rmLog.eventIds)
    /\ calendarSync[rmLog.regimen] = NoCalendarSync

\* C10: after a disconnect answered 200 no regimen holds calendarSync.eventIds,
\* and a deletion was attempted for every id the regimens listed
C10_DisconnectClearsSyncState ==
    dcLog.status = 200 =>
        /\ \A r \in Regimens : calendarSync[r].eventIds = <<>>
        /\ dcLog.deleteCalls = IdsBefore(MaxRegimens + 1)

\* C11: in routes/calendar.js a sync-all request during which an events.insert
\* was rejected for the credential is answered 401; one in which a regimen
\* timed out (and no credential was rejected) is answered 408
C11_SyncAllStatusCodes ==
    (impl = "calendar" /\ saResponse.status # 0) =>
        /\ saLog.authAt # 0 => saResponse.status = 401
        /\ (saLog.authAt = 0 /\ saLog.timedOut # {}) => saResponse.status = 408

(***************************************************************************)
(* Claims about generateCalendarEvents.                                    *)
(***************************************************************************)
\* the calendar day of an event, from its start
EventDay(event) == event.start \div 1440

\* the starts of the events of a list that fall on day d, in the order of the list
StartsOnDay(events, d) ==
    LET onDay == SelectSeq(events, LAMBDA e : EventDay(e) = d)
    IN  [k \in 1..Len(onDay) |-> onDay[k].start]

\* the starts the schedule of a regimen gives on day d, in the order of its list
ScheduledStarts(regimen, d) ==
    [k \in 1..Len(ScheduleTimes(regimen)) |->
        d * 1440 + ScheduleTimes(regimen)[k].hours * 60
                 + ScheduleTimes(regimen)[k].minutes]

C13_WindowIsHalfOpen ==
    \A c \in GenCalls :
        genResult[c].at # NoDate =>
            /\ \A k \in 1..Len(genResult[c].events) :
                   EventDay(genResult[c].events[k]) - DayOf(genResult[c].at)
                       \in 0..(genDays - 1)
            /\ genRegimen.frequency = "once_daily" =>
                   Len(genResult[c].events) = genDays

\* C14: for every_other_day (weekly) a day of the window today .. today + d - 1
\* has an event exactly when its distance in days from the day of
\* regimen.startDate is even (a multiple of 7), whatever the times of day of
\* startDate and of the call
C14_AlternateDaysByOffset ==
    \A c \in GenCalls :
        (genResult[c].at # NoDate
            /\ genRegimen.frequency \in {"every_other_day", "weekly"}) =>
            LET period == IF genRegimen.frequency = "weekly" THEN 7 ELSE 2
                today == DayOf(genResult[c].at)
            IN  \A d \in today..(today + genDays - 1) :
                    (\E k \in 1..Len(genResult[c].events) :
                         EventDay(genResult[c].events[k]) = d)
                    <=> ((d - DayOf(genRegimen.startDate)) % period = 0)

(***************************************************************************)
(* Claims about the reward summary.                                        *)
(***************************************************************************)
\* the log holds a taken dose due on day d
HasTaken(logs, d) ==
    \E dose \in Doses :
        Taken(dose) /\ DayOf(dose.scheduledTime) = d /\ logs[dose] > 0

\* the largest k such that each of today, today-1, .., today-(k-1) has a taken dose
ConsecutiveDays(logs, today) ==
    CHOOSE k \in 0..(today + 1) :
        /\ \A i \in 0..(k - 1) : HasTaken(logs, today - i)
        /\ ~HasTaken(logs, today - k)

\* C15: the streak of the summary is the number of consecutive calendar days,
\* walking back from today, that each hold at least one taken dose
C15_StreakIsConsecutiveDays ==
    (summary.status = 200 /\ "streak" \notin summaryLog.failed) =>
        summary.currentStreak = ConsecutiveDays(doseLogs, DayOf(summaryLog.at))

\* a progress value is well formed: total and completed are counts with
\* completed <= total, the percentage is a number (not 0/0) between 0 and 100,
\* equal to completed / total * 100 for total > 0 and to 0 for total = 0
WellFormedProgress(progress) ==
    /\ progress.total >= 0
    /\ progress.completed >= 0
    /\ progress.completed <= progress.total
    /\ progress.percentage.den > 0
    /\ progress.percentage.num >= 0
    /\ progress.percentage.num <= 100 * progress.percentage.den
    /\ progress.total > 0 =>
           progress.percentage.num * progress.total
               = progress.completed * 100 * progress.percentage.den
    /\ progress.total = 0 => progress = NoProgress

\* the entries of the log due on day d
DueOn(logs, d) == {dose \in Doses : DayOf(dose.scheduledTime) = d /\ logs[dose] > 0}

\* C16: dailyProgress and weeklyProgress are {total, completed, percentage} with
\* 0 <= completed <= total, percentage = completed/total*100 in 0..100 for
\* total > 0, and exactly {0, 0, 0} when no dose is due in the window; the daily
\* total counts the doses due today
C16_ProgressIsWellFormed ==
    summary.status = 200 =>
        /\ WellFormedProgress(summary.dailyProgress)
        /\ WellFormedProgress(summary.weeklyProgress)
        /\ DueOn(doseLogs, DayOf(summaryLog.at)) = {} =>
               summary.dailyProgress = NoProgress
        /\ "daily" \notin summaryLog.failed =>
               summary.dailyProgress.total
                   = SumOver(doseLogs, DueOn(doseLogs, DayOf(summaryLog.at)))
        /\ "weekly" \notin summaryLog.failed =>
               summary.weeklyProgress.total = SumOver(doseLogs, Doses)

\* C16 witness: two doses due today, one of them taken, and a summary sent the
\* day after with nothing due that day
C16_Witness ==
    /\ summary.status = 200
    /\ summaryLog.failed = {}
    /\ summary.dailyProgress = NoProgress
    /\ summary.weeklyProgress.total = 2
    /\ summary.weeklyProgress.completed = 1

\* the two level fields agree with the points total, and the distance to the
\* next level lies in 1..100
LevelsAgree(rewards) ==
    /\ rewards.totalPoints >= 0
    /\ rewards.currentLevel * 100 <= rewards.totalPoints + 100
    /\ rewards.totalPoints < rewards.currentLevel * 100
    /\ rewards.pointsToNextLevel + rewards.totalPoints = rewards.currentLevel * 100
    /\ rewards.pointsToNextLevel >= 1
    /\ rewards.pointsToNextLevel <= 100

\* C17: in every state of the rewards store and in every summary the backend
\* sends, currentLevel = floor(totalPoints / 100) + 1 and pointsToNextLevel =
\* currentLevel * 100 - totalPoints, which lies in 1..100
C17_LevelFollowsPoints ==
    /\ LevelsAgree(store.userRewards)
    /\ summary.status = 200 => LevelsAgree(summary)

\* C17 witness: the store reached a multiple of 100 by daily claims and dose
\* rewards, and the backend answered for a user past the first level
C17_Witness ==
    /\ store.userRewards.totalPoints = 100
    /\ store.userRewards.currentLevel = 2
    /\ store.dailyRewardClaimed
    /\ summary.status = 200
    /\ summary.totalPoints > 100
    /\ summary.totalPoints # totalRewardPoints

\* C18: an achievement that calculateAchievementsFast reported unlocked is still
\* reported unlocked by every later call, whatever was added to the dose log
\* and however much time passed in between
C18_UnlocksAreMonotonic == reported \subseteq lastReport

\* C19: in the achievements of a summary the progress of each achievement
\* follows its unlock predicate: 0 <= current <= target, current < target
\* while it is locked, and current = target once it is unlocked
C19_ProgressFollowsUnlock ==
    summary.status = 200 =>
        \A id \in AchievementIds :
            LET achievement == summary.achievements[id]
            IN  /\ achievement.progress.current >= 0
                /\ achievement.progress.current <= achievement.progress.target
                /\ ~achievement.unlocked =>
                       achievement.progress.current # achievement.progress.target
                /\ achievement.unlocked =>
                       achievement.progress.current >= achievement.progress.target

OwnEntry(r) ==
    IF r \in saLog.timedOut THEN FailureEntry(r, TimeoutMessage)
    ELSE IF runLog[r].outcome = "returned"
    THEN SuccessEntry(r, runLog[r].eventsCreated)
    ELSE FailureEntry(r, runLog[r].error)

\* C21: in sync-all of routes/calendar.js, when the sync of a regimen exceeds
\* its 15 s timeout only that regimen is recorded as failed for it: every
\* regimen of the list is attempted, each has its own outcome as its entry, in
\* list order, and the request answers 200 with the structured summary
C21_TimeoutFailsOneRegimen ==
    (impl = "calendar" /\ saLog.timedOut # {} /\ saResponse.status # 0) =>
        /\ saResponse.status = 200
        /\ saLog.attempted = Range(ActiveRegimens)
        /\ Len(saResponse.results) = Len(ActiveRegimens)
        /\ \A k \in 1..Len(ActiveRegimens) :
               saResponse.results[k] = OwnEntry(ActiveRegimens[k])
        /\ saResponse.failureCount >= Cardinality(saLog.timedOut)
        /\ saResponse.successCount + saResponse.failureCount = Len(ActiveRegimens)

\* C21 witness: the first regimen timed out and the regimen after it was
\* synced, with an event created
C21_Witness ==
    /\ impl = "calendar"
    /\ saResponse.status = 200
    /\ Len(saResponse.results) = 2
    /\ saLog.timedOut = {saResponse.results[1].regimenId}
    /\ saResponse.results[2].success
    /\ saResponse.results[2].eventsCreated >= 1

\* C22: sync-regimen answers eventsCreated = the number of events.insert calls
\* of the request that succeeded, and persists exactly the ids of those events
\* in calendarSync.eventIds, in both routers
C22_SyncRegimenCountsCreated ==
    srResponse.status = 200 =>
        /\ srResponse.eventsCreated = Len(srLog.created)
        /\ calendarSync[srLog.regimen].eventIds = srLog.created

\* the ids the provider can give the events of regimen r past the cut
IdsPastCut(r) ==
    {ProviderId(r, i, a) : i \in (maxEventsPerRegimen + 1)..nEvents[r],
                           a \in 1..maxRetries}

\* the ids of one regimen grow with the place of the event in the list
InGenerationOrder(ids) == \A j \in 1..(Len(ids) - 1) : ids[j] < ids[j + 1]

\* C23: syncSingleRegimen of routes/calendar.js attempts only the first 30
\* events of the generated list, in generation order: no event beyond place 30
\* is sent to the provider, and eventsCreated and the length of
\* calendarSync.eventIds are at most 30
C23_OnlyFirstThirtyAttempted ==
    impl = "calendar" =>
        \A r \in Regimens :
            /\ run[r].i <= maxEventsPerRegimen
            /\ DOMAIN runLog[r].attempts \subseteq 1..maxEventsPerRegimen
            /\ IdsPastCut(r) \cap remote = {}
            /\ InGenerationOrder(run[r].createdEvents)
            /\ Len(run[r].createdEvents) <= maxEventsPerRegimen
            /\ runLog[r].eventsCreated <= maxEventsPerRegimen
            /\ Len(calendarSync[r].eventIds) <= maxEventsPerRegimen
            /\ InGenerationOrder(calendarSync[r].eventIds)

\* C23 witness: a list of 31 events was synced, 30 events created, one call
\* rejected on the way
C23_Witness ==
    /\ impl = "calendar"
    /\ nEvents[2] > maxEventsPerRegimen
    /\ runLog[2].outcome = "returned"
    /\ runLog[2].eventsCreated = maxEventsPerRegimen
    /\ Len(calendarSync[2].eventIds) = maxEventsPerRegimen
    /\ runLog[2].calls > maxEventsPerRegimen

\* the j-th batch of a list of n items cut in batches of batchSize
NthBatch(j, n, batchSize) == <<(j - 1) * batchSize + 1, Min(j * batchSize, n)>>

RECURSIVE Concatenation(_)
Concatenation(lists) ==
    IF lists = <<>> THEN <<>> ELSE Head(lists) \o Concatenation(Tail(lists))

\* C24: processInBatches hands every item to the processor exactly once, in
\* consecutive batches of at most batchSize items in list order; a batch is
\* started only when the one before has completed, so at most batchSize calls
\* are in flight; the returned list is the concatenation of the batch results
\* in batch order; when the processor of a batch throws, no later batch is
\* processed and the error propagates
C24_BatchesInOrderOneAtATime ==
    pb.pc # "idle" =>
        /\ \A k \in 1..MaxItems : pbLog.handed[k] <= 1
        /\ \A j \in 1..Len(pbLog.batches) :
               pbLog.batches[j] = NthBatch(j, pb.n, pb.batchSize)
        /\ Cardinality(pb.pending) <= pb.batchSize
        /\ ~pbLog.overlapped
        /\ Len(pbLog.returns) \in {Len(pbLog.batches), Len(pbLog.batches) - 1}
        /\ pb.pc = "returned" =>
               /\ \A k \in 1..MaxItems : pbLog.handed[k] = IF k <= pb.n THEN 1 ELSE 0
               /\ pb.results = Concatenation(pbLog.returns)
               /\ Len(pbLog.returns) = Len(pbLog.batches)
               /\ ~pb.error
        /\ pb.pc = "thrown" =>
               /\ pb.error
               /\ Len(pbLog.returns) = Len(pbLog.batches) - 1
               /\ \A k \in 1..MaxItems :
                      pbLog.handed[k] = IF k <= pbLog.batches[Len(pbLog.batches)][2]
                                        THEN 1 ELSE 0

\* C24 witness: a list cut in three batches, the last one shorter, returned
\* with a null left out
C24_Witness ==
    /\ pb.pc = "returned"
    /\ Len(pbLog.batches) = 3
    /\ pb.n % pb.batchSize # 0
    /\ Len(pb.results) = pb.n - 1

\* C25: the status cache is cleared after connection changes: a
\* getConnectionStatus() made after a successful handleCallback, disconnect or
\* disconnectCalendar never returns the status cached before that change;
\* otherwise a non-forced call returns the cached object exactly when it is
\* younger than 2 minutes, and a forced call always refetches
C25_CacheClearedOnChange ==
    /\ csLog.fromCache =>
           /\ ~csLog.outdated
           /\ ~csLog.forceRefresh
           /\ csLog.hadData
           /\ csLog.age < cacheDuration
    /\ (~csLog.fromCache /\ ~csLog.forceRefresh /\ csLog.hadData) =>
           csLog.age >= cacheDuration

\* C26: fetchUserRewards skips the API call while a fetch is loading: from any
\* store state at most one RewardService.getUserRewards request is in flight;
\* a call with forceRefresh = true that is not skipped for that reason always
\* issues a request
C26_OneFetchInFlight ==
    /\ fetching <= 1
    /\ (fetchLog.forceRefresh /\ ~fetchLog.wasLoading) => fetchLog.issued

\* no operation on the calendar is in progress, and one has been answered
NothingInProgress ==
    /\ sa.pc = "idle"
    /\ rm.pc = "idle"
    /\ sr.pc = "idle"
    /\ \A r \in Regimens : run[r].pc = "idle"
    /\ saResponse.status # 0

\* the ids some regimen lists in calendarSync.eventIds
TrackedIds == UNION {Range(calendarSync[r].eventIds) : r \in Regimens}

\* C27: whenever no operation is in progress, every event the engine created at
\* the provider and has not deleted is listed in the calendarSync.eventIds of
\* its regimen (the store itself not failing): a sync aborted by an
\* authentication error leaves no event that is created but not recorded
C27_CreatedEventsAreTracked ==
    (/\ impl = "calendar"
     /\ NothingInProgress
     /\ \A r \in Regimens : runLog[r].error # StoreErrorMessage) =>
        remote \subseteq TrackedIds

\* C28: a regimen recorded as failed by the 15 s timeout has no effect that
\* outlives its entry: once the entry is recorded the timed-out
\* syncSingleRegimen completes no events.insert but the one that was in flight,
\* and does not write calendarSync.eventIds or lastSyncAt
C28_TimedOutSyncStops ==
    impl = "calendar" =>
        \A r \in saLog.timedOut :
            /\ runLog[r].calls <= saLog.calls[r] + 1
            /\ calendarSync[r] = NoCalendarSync

\* an instant of the clock in minutes since day 0, 00:00
MinutesAt(t) == t * (1440 \div DayLen)

====
